---------------------------- MODULE Spec2Model ----------------------------
(***************************************************************************)
(* A model of the schema generator's synthesis pipeline: the pattern       *)
(* library, the tree cleaner (cleanObject), the shallow validator          *)
(* (validateSchema), the form validator (validateFormData), the business   *)
(* hours parser and the Home component's generateSchema handler.           *)
(*                                                                         *)
(* Representation.  A JavaScript string is a sequence of tokens.  A token  *)
(* is a single character (a digit, a space, a punctuation mark, a single   *)
(* letter) or an atomic run of letters (a word such as "Austin").  String  *)
(* operations (trim, toLowerCase, startsWith, includes, the regular        *)
(* expressions) are computed on the token sequence.  A JavaScript value is *)
(* a record tagged with its type: undefined, null, string, number, NaN,    *)
(* object (a function from keys to values) or array (a sequence).  A       *)
(* number is kept in tenths (45 stands for 4.5).                           *)
(***************************************************************************)
EXTENDS Integers, Sequences, FiniteSets, TLC

VARIABLES
  phase,            \* which operation produced the current result
  input,            \* the argument(s) of the pure function under check
  output,           \* its result
  formData,         \* Home: the form fields (useLocalStorage 'formData')
  isAiGenerated,    \* Home: validation mode flag
  generatedSchema,  \* Home: the displayed script text
  schemaHistory,    \* Home: the history list, newest first
  activeTab,        \* Home: the selected tab
  images,           \* Home: the image urls (useLocalStorage 'images')
  socialProfiles,   \* Home: the social profile urls
  howToSteps,       \* Home: the steps of a how-to guide
  lastRun,          \* the calls and the outcome of the latest generateSchema run
  lastIndex,        \* utils: the lastIndex of each postal code pattern object
  runs,             \* number of generateSchema runs so far (the clock of Date.now())
  edits             \* number of form edits so far

vars == <<phase, input, output, formData, isAiGenerated, generatedSchema,
          schemaHistory, activeTab, images, socialProfiles, howToSteps,
          lastRun, lastIndex, runs, edits>>

appVars == <<formData, isAiGenerated, generatedSchema, schemaHistory,
             activeTab, images, socialProfiles, howToSteps, lastRun, runs, edits>>


---------------------------------------------------------------------------
(* JavaScript values *)

Undef == [k |-> "undefined"]
Null == [k |-> "null"]
NaN == [k |-> "NaN"]
Str(s) == [k |-> "string", v |-> s]
Num(n) == [k |-> "number", v |-> n]
Obj(f) == [k |-> "object", v |-> f]
Arr(a) == [k |-> "array", v |-> a]

IsStr(x) == x.k = "string"
IsNum(x) == x.k = "number"
IsObj(x) == x.k = "object"
IsArr(x) == x.k = "array"

\* ToBoolean: undefined, null, "", 0 and NaN are falsy.
Truthy(x) ==
  CASE x.k = "undefined" -> FALSE
    [] x.k = "null" -> FALSE
    [] x.k = "NaN" -> FALSE
    [] x.k = "string" -> x.v # <<>>
    [] x.k = "number" -> x.v # 0
    [] OTHER -> TRUE

\* obj.key: undefined when the key is missing.
Get(o, key) == IF IsObj(o) /\ key \in DOMAIN o.v THEN o.v[key] ELSE Undef

\* obj.key = val
Put(o, key, val) ==
  Obj([x \in (DOMAIN o.v) \cup {key} |-> IF x = key THEN val ELSE o.v[x]])

\* delete obj.key
Del(o, key) == Obj([x \in (DOMAIN o.v) \ {key} |-> o.v[x]])

\* a || b
OrElse(a, b) == IF Truthy(a) THEN a ELSE b

---------------------------------------------------------------------------
(* Strings as token sequences *)

DigitTok == {"0", "1", "2", "3", "4", "5", "6", "7", "8", "9"}
SpaceTok == {" ", "\n"}
PunctTok == {"-", ".", ":", "@", "/", "$", ",", "+", "(", ")", "_", "[", "]", "?", "&"}
LetterTok == {"A", "B", "K", "S", "W", "a", "b", "k", "s", "w"}

\* \w : letters, digits and the underscore; every token that is neither a
\* space nor a punctuation mark is a run of letters.
IsWordTok(t) == t \notin SpaceTok /\ (t \notin PunctTok \/ t = "_")
IsDigit(t) == t \in DigitTok
IsSpace(t) == t \in SpaceTok
IsLetter(t) == t \in LetterTok

DigitVal(t) ==
  CASE t = "0" -> 0 [] t = "1" -> 1 [] t = "2" -> 2 [] t = "3" -> 3
    [] t = "4" -> 4 [] t = "5" -> 5 [] t = "6" -> 6 [] t = "7" -> 7
    [] t = "8" -> 8 [] t = "9" -> 9

DigitTokOf(d) ==
  CASE d = 0 -> "0" [] d = 1 -> "1" [] d = 2 -> "2" [] d = 3 -> "3"
    [] d = 4 -> "4" [] d = 5 -> "5" [] d = 6 -> "6" [] d = 7 -> "7"
    [] d = 8 -> "8" [] d = 9 -> "9"

RECURSIVE TrimStart(_)
TrimStart(s) ==
  IF s # <<>> /\ IsSpace(Head(s)) THEN TrimStart(Tail(s)) ELSE s

RECURSIVE TrimEnd(_)
TrimEnd(s) ==
  IF s # <<>> /\ IsSpace(s[Len(s)]) THEN TrimEnd(SubSeq(s, 1, Len(s) - 1)) ELSE s

\* String.prototype.trim
Trim(s) == TrimEnd(TrimStart(s))

\* String.prototype.startsWith
StartsWith(s, p) == Len(s) >= Len(p) /\ SubSeq(s, 1, Len(p)) = p

\* String.prototype.slice(from) with from counted from 0
SliceFrom(s, from) == SubSeq(s, from + 1, Len(s))

\* toLowerCase of one token: the capitalised words of the vocabulary.
LowerTok(t) ==
  CASE t = "Austin" -> "austin"
    [] t = "AUSTIN" -> "austin"
    [] t = "Detroit" -> "detroit"
    [] t = "New" -> "new"
    [] t = "York" -> "york"
    [] t = "Springfield" -> "springfield"
    [] t = "Luxury" -> "luxury"
    [] t = "Affordable" -> "affordable"
    [] t = "Monday" -> "monday"
    [] t = "Tuesday" -> "tuesday"
    [] t = "Wednesday" -> "wednesday"
    [] t = "Thursday" -> "thursday"
    [] t = "Friday" -> "friday"
    [] t = "Saturday" -> "saturday"
    [] t = "Sunday" -> "sunday"
    [] t = "Mon" -> "mon"
    [] t = "Fri" -> "fri"
    [] t = "Sat" -> "sat"
    [] t = "AM" -> "am"
    [] t = "PM" -> "pm"
    [] t = "Acme" -> "acme"
    [] t = "HVAC" -> "hvac"
    [] t = "Main" -> "main"
    [] t = "St" -> "st"
    [] t = "TX" -> "tx"
    [] t = "A" -> "a"
    [] t = "B" -> "b"
    [] t = "K" -> "k"
    [] t = "S" -> "s"
    [] t = "W" -> "w"
    [] OTHER -> t

\* String.prototype.toLowerCase
ToLower(s) == [i \in 1..Len(s) |-> LowerTok(s[i])]

\* A word contains a shorter word as a substring: the pairs of the vocabulary.
WordContains(t, sub) ==
  \/ t = sub
  \/ <<t, sub>> \in {<<"monday", "mon">>, <<"friday", "fri">>,
                     <<"luxurious", "luxur">>, <<"valued", "value">>,
                     <<"unreasonable", "reasonable">>,
                     <<"automotive", "auto">>, <<"lawyer", "law">>, <<"repair", "air">>}

\* String.prototype.includes: a one-token needle may lie inside a word, a
\* longer needle is matched token by token.
Includes(s, p) ==
  IF Len(p) = 1
  THEN \E i \in 1..Len(s) : WordContains(s[i], p[1])
  ELSE \E i \in 1..(Len(s) - Len(p) + 1) : SubSeq(s, i, i + Len(p) - 1) = p

---------------------------------------------------------------------------
(* Numbers: parseFloat, parseInt, Number.prototype.toString *)

\* The number of leading digits of s.
RECURSIVE DigitRun(_)
DigitRun(s) == IF s # <<>> /\ IsDigit(Head(s)) THEN 1 + DigitRun(Tail(s)) ELSE 0

\* The value of a sequence of digits.
RECURSIVE DigitsValue(_)
DigitsValue(s) ==
  IF s = <<>> THEN 0 ELSE 10 * DigitsValue(SubSeq(s, 1, Len(s) - 1)) + DigitVal(s[Len(s)])

\* The digits of a natural number.
RECURSIVE DigitsOf(_)
DigitsOf(n) ==
  IF n < 10 THEN <<DigitTokOf(n)>> ELSE Append(DigitsOf(n \div 10), DigitTokOf(n % 10))

\* Number.prototype.toString of a number kept in tenths.
NumToString(x) ==
  IF x.k = "NaN" THEN <<"NaN">>
  ELSE LET a == IF x.v < 0 THEN -x.v ELSE x.v
           sign == IF x.v < 0 THEN <<"-">> ELSE <<>>
           frac == IF a % 10 = 0 THEN <<>> ELSE <<".", DigitTokOf(a % 10)>>
       IN sign \o DigitsOf(a \div 10) \o frac

\* ToString of any primitive, as parseFloat and parseInt apply it first.
ToStringPrim(x) ==
  CASE x.k = "string" -> x.v
    [] x.k = "number" -> NumToString(x)
    [] x.k = "NaN" -> <<"NaN">>
    [] x.k = "undefined" -> <<"undefined">>
    [] x.k = "null" -> <<"null">>
    [] OTHER -> <<"object">>

\* parseFloat: leading whitespace, an optional sign, digits, an optional
\* fraction; the longest numeric prefix counts and the rest is ignored.  The
\* first digit of the fraction is kept.
ParseFloatStr(s0) ==
  LET s == TrimStart(s0)
      neg == s # <<>> /\ Head(s) = "-"
      t == IF s # <<>> /\ Head(s) \in {"-", "+"} THEN Tail(s) ELSE s
      n == DigitRun(t)
      r == SubSeq(t, n + 1, Len(t))
      dotOnly == r # <<>> /\ Head(r) = "."
      m == IF dotOnly THEN DigitRun(Tail(r)) ELSE 0
      mag == 10 * DigitsValue(SubSeq(t, 1, n)) + (IF m > 0 THEN DigitVal(r[2]) ELSE 0)
  IN IF n = 0 /\ m = 0 THEN NaN
     ELSE Num(IF neg THEN -mag ELSE mag)

parseFloat(x) == ParseFloatStr(ToStringPrim(x))

\* parseInt: leading whitespace, an optional sign, digits.
ParseIntStr(s0) ==
  LET s == TrimStart(s0)
      neg == s # <<>> /\ Head(s) = "-"
      t == IF s # <<>> /\ Head(s) \in {"-", "+"} THEN Tail(s) ELSE s
      n == DigitRun(t)
      mag == 10 * DigitsValue(SubSeq(t, 1, n))
  IN IF n = 0 THEN NaN ELSE Num(IF neg THEN -mag ELSE mag)

parseInt(x) == ParseIntStr(ToStringPrim(x))

isNaN(x) == x.k = "NaN"

\* a < b and a > b on numbers: false when either side is NaN.
NumLt(a, b) == IsNum(a) /\ IsNum(b) /\ a.v < b.v
NumGt(a, b) == IsNum(a) /\ IsNum(b) /\ a.v > b.v

\* An integer literal of the source, in tenths.
Lit(n) == Num(10 * n)

---------------------------------------------------------------------------
(* Pattern library: the tables *)

cityPriceMapping ==
     (<<"new", " ", "york">> :> <<"$", "$", "$", "$">>)
  @@ (<<"manhattan">> :> <<"$", "$", "$", "$">>)
  @@ (<<"san", " ", "francisco">> :> <<"$", "$", "$", "$">>)
  @@ (<<"palo", " ", "alto">> :> <<"$", "$", "$", "$">>)
  @@ (<<"cupertino">> :> <<"$", "$", "$", "$">>)
  @@ (<<"mountain", " ", "view">> :> <<"$", "$", "$", "$">>)
  @@ (<<"beverly", " ", "hills">> :> <<"$", "$", "$", "$">>)
  @@ (<<"monaco">> :> <<"$", "$", "$", "$">>)
  @@ (<<"hong", " ", "kong">> :> <<"$", "$", "$", "$">>)
  @@ (<<"zurich">> :> <<"$", "$", "$", "$">>)
  @@ (<<"geneva">> :> <<"$", "$", "$", "$">>)
  @@ (<<"los", " ", "angeles">> :> <<"$", "$", "$">>)
  @@ (<<"seattle">> :> <<"$", "$", "$">>)
  @@ (<<"boston">> :> <<"$", "$", "$">>)
  @@ (<<"washington">> :> <<"$", "$", "$">>)
  @@ (<<"washington", " ", "dc">> :> <<"$", "$", "$">>)
  @@ (<<"chicago">> :> <<"$", "$", "$">>)
  @@ (<<"miami">> :> <<"$", "$", "$">>)
  @@ (<<"san", " ", "diego">> :> <<"$", "$", "$">>)
  @@ (<<"san", " ", "jose">> :> <<"$", "$", "$">>)
  @@ (<<"oakland">> :> <<"$", "$", "$">>)
  @@ (<<"denver">> :> <<"$", "$", "$">>)
  @@ (<<"austin">> :> <<"$", "$", "$">>)
  @@ (<<"portland">> :> <<"$", "$", "$">>)
  @@ (<<"vancouver">> :> <<"$", "$", "$">>)
  @@ (<<"toronto">> :> <<"$", "$", "$">>)
  @@ (<<"london">> :> <<"$", "$", "$">>)
  @@ (<<"paris">> :> <<"$", "$", "$">>)
  @@ (<<"tokyo">> :> <<"$", "$", "$">>)
  @@ (<<"sydney">> :> <<"$", "$", "$">>)
  @@ (<<"melbourne">> :> <<"$", "$", "$">>)
  @@ (<<"atlanta">> :> <<"$", "$">>)
  @@ (<<"dallas">> :> <<"$", "$">>)
  @@ (<<"houston">> :> <<"$", "$">>)
  @@ (<<"phoenix">> :> <<"$", "$">>)
  @@ (<<"nashville">> :> <<"$", "$">>)
  @@ (<<"charlotte">> :> <<"$", "$">>)
  @@ (<<"raleigh">> :> <<"$", "$">>)
  @@ (<<"tampa">> :> <<"$", "$">>)
  @@ (<<"orlando">> :> <<"$", "$">>)
  @@ (<<"las", " ", "vegas">> :> <<"$", "$">>)
  @@ (<<"salt", " ", "lake", " ", "city">> :> <<"$", "$">>)
  @@ (<<"minneapolis">> :> <<"$", "$">>)
  @@ (<<"milwaukee">> :> <<"$", "$">>)
  @@ (<<"indianapolis">> :> <<"$", "$">>)
  @@ (<<"columbus">> :> <<"$", "$">>)
  @@ (<<"cincinnati">> :> <<"$", "$">>)
  @@ (<<"pittsburgh">> :> <<"$", "$">>)
  @@ (<<"baltimore">> :> <<"$", "$">>)
  @@ (<<"richmond">> :> <<"$", "$">>)
  @@ (<<"jacksonville">> :> <<"$", "$">>)
  @@ (<<"san", " ", "antonio">> :> <<"$", "$">>)
  @@ (<<"fort", " ", "worth">> :> <<"$", "$">>)
  @@ (<<"albuquerque">> :> <<"$", "$">>)
  @@ (<<"tucson">> :> <<"$", "$">>)
  @@ (<<"sacramento">> :> <<"$", "$">>)
  @@ (<<"fresno">> :> <<"$", "$">>)
  @@ (<<"detroit">> :> <<"$">>)
  @@ (<<"cleveland">> :> <<"$">>)
  @@ (<<"buffalo">> :> <<"$">>)
  @@ (<<"kansas", " ", "city">> :> <<"$">>)
  @@ (<<"oklahoma", " ", "city">> :> <<"$">>)
  @@ (<<"tulsa">> :> <<"$">>)
  @@ (<<"memphis">> :> <<"$">>)
  @@ (<<"birmingham">> :> <<"$">>)
  @@ (<<"little", " ", "rock">> :> <<"$">>)
  @@ (<<"jackson">> :> <<"$">>)
  @@ (<<"shreveport">> :> <<"$">>)
  @@ (<<"mobile">> :> <<"$">>)
  @@ (<<"montgomery">> :> <<"$">>)
  @@ (<<"huntsville">> :> <<"$">>)
  @@ (<<"chattanooga">> :> <<"$">>)
  @@ (<<"knoxville">> :> <<"$">>)
  @@ (<<"louisville">> :> <<"$">>)
  @@ (<<"lexington">> :> <<"$">>)
  @@ (<<"toledo">> :> <<"$">>)
  @@ (<<"akron">> :> <<"$">>)
  @@ (<<"youngstown">> :> <<"$">>)
  @@ (<<"dayton">> :> <<"$">>)
  @@ (<<"fort", " ", "wayne">> :> <<"$">>)
  @@ (<<"evansville">> :> <<"$">>)
  @@ (<<"peoria">> :> <<"$">>)
  @@ (<<"rockford">> :> <<"$">>)
  @@ (<<"green", " ", "bay">> :> <<"$">>)
  @@ (<<"des", " ", "moines">> :> <<"$">>)
  @@ (<<"cedar", " ", "rapids">> :> <<"$">>)
  @@ (<<"sioux", " ", "city">> :> <<"$">>)
  @@ (<<"fargo">> :> <<"$">>)
  @@ (<<"bismarck">> :> <<"$">>)
  @@ (<<"rapid", " ", "city">> :> <<"$">>)
  @@ (<<"billings">> :> <<"$">>)
  @@ (<<"great", " ", "falls">> :> <<"$">>)
  @@ (<<"boise">> :> <<"$">>)
  @@ (<<"spokane">> :> <<"$">>)
  @@ (<<"yakima">> :> <<"$">>)

businessTypePriceMapping ==
     (<<"LegalService">> :> <<"$", "$", "$">>)
  @@ (<<"MedicalBusiness">> :> <<"$", "$", "$">>)
  @@ (<<"DentalBusiness">> :> <<"$", "$">>)
  @@ (<<"Restaurant">> :> <<"$", "$">>)
  @@ (<<"HVACBusiness">> :> <<"$", "$">>)
  @@ (<<"ProfessionalService">> :> <<"$", "$">>)
  @@ (<<"HomeAndConstructionBusiness">> :> <<"$", "$">>)
  @@ (<<"AutomotiveBusiness">> :> <<"$">>)
  @@ (<<"LocalBusiness">> :> <<"$", "$">>)

cityStateMapping ==
     (<<"new", " ", "york">> :> <<"NY">>)
  @@ (<<"los", " ", "angeles">> :> <<"CA">>)
  @@ (<<"chicago">> :> <<"IL">>)
  @@ (<<"houston">> :> <<"TX">>)
  @@ (<<"phoenix">> :> <<"AZ">>)
  @@ (<<"philadelphia">> :> <<"PA">>)
  @@ (<<"san", " ", "antonio">> :> <<"TX">>)
  @@ (<<"san", " ", "diego">> :> <<"CA">>)
  @@ (<<"dallas">> :> <<"TX">>)
  @@ (<<"san", " ", "jose">> :> <<"CA">>)
  @@ (<<"austin">> :> <<"TX">>)
  @@ (<<"jacksonville">> :> <<"FL">>)
  @@ (<<"fort", " ", "worth">> :> <<"TX">>)
  @@ (<<"columbus">> :> <<"OH">>)
  @@ (<<"charlotte">> :> <<"NC">>)
  @@ (<<"francisco">> :> <<"CA">>)
  @@ (<<"indianapolis">> :> <<"IN">>)
  @@ (<<"seattle">> :> <<"WA">>)
  @@ (<<"denver">> :> <<"CO">>)
  @@ (<<"washington">> :> <<"DC">>)
  @@ (<<"boston">> :> <<"MA">>)
  @@ (<<"el", " ", "paso">> :> <<"TX">>)
  @@ (<<"detroit">> :> <<"MI">>)
  @@ (<<"nashville">> :> <<"TN">>)
  @@ (<<"memphis">> :> <<"TN">>)
  @@ (<<"portland">> :> <<"OR">>)
  @@ (<<"oklahoma", " ", "city">> :> <<"OK">>)
  @@ (<<"las", " ", "vegas">> :> <<"NV">>)
  @@ (<<"baltimore">> :> <<"MD">>)
  @@ (<<"louisville">> :> <<"KY">>)
  @@ (<<"milwaukee">> :> <<"WI">>)
  @@ (<<"albuquerque">> :> <<"NM">>)
  @@ (<<"tucson">> :> <<"AZ">>)
  @@ (<<"fresno">> :> <<"CA">>)
  @@ (<<"mesa">> :> <<"AZ">>)
  @@ (<<"sacramento">> :> <<"CA">>)
  @@ (<<"atlanta">> :> <<"GA">>)
  @@ (<<"kansas", " ", "city">> :> <<"MO">>)
  @@ (<<"colorado", " ", "springs">> :> <<"CO">>)
  @@ (<<"omaha">> :> <<"NE">>)
  @@ (<<"raleigh">> :> <<"NC">>)
  @@ (<<"miami">> :> <<"FL">>)
  @@ (<<"oakland">> :> <<"CA">>)
  @@ (<<"minneapolis">> :> <<"MN">>)
  @@ (<<"tulsa">> :> <<"OK">>)
  @@ (<<"cleveland">> :> <<"OH">>)
  @@ (<<"wichita">> :> <<"KS">>)
  @@ (<<"arlington">> :> <<"TX">>)
  @@ (<<"new", " ", "orleans">> :> <<"LA">>)
  @@ (<<"bakersfield">> :> <<"CA">>)
  @@ (<<"tampa">> :> <<"FL">>)
  @@ (<<"honolulu">> :> <<"HI">>)
  @@ (<<"aurora">> :> <<"CO">>)
  @@ (<<"anaheim">> :> <<"CA">>)
  @@ (<<"santa", " ", "ana">> :> <<"CA">>)
  @@ (<<"st", ".", " ", "louis">> :> <<"MO">>)
  @@ (<<"riverside">> :> <<"CA">>)
  @@ (<<"corpus", " ", "christi">> :> <<"TX">>)
  @@ (<<"lexington">> :> <<"KY">>)
  @@ (<<"pittsburgh">> :> <<"PA">>)
  @@ (<<"anchorage">> :> <<"AK">>)
  @@ (<<"stockton">> :> <<"CA">>)
  @@ (<<"cincinnati">> :> <<"OH">>)
  @@ (<<"saint", " ", "paul">> :> <<"MN">>)
  @@ (<<"toledo">> :> <<"OH">>)
  @@ (<<"greensboro">> :> <<"NC">>)
  @@ (<<"newark">> :> <<"NJ">>)
  @@ (<<"plano">> :> <<"TX">>)
  @@ (<<"henderson">> :> <<"NV">>)
  @@ (<<"lincoln">> :> <<"NE">>)
  @@ (<<"buffalo">> :> <<"NY">>)
  @@ (<<"jersey", " ", "city">> :> <<"NJ">>)
  @@ (<<"chula", " ", "vista">> :> <<"CA">>)
  @@ (<<"fort", " ", "wayne">> :> <<"IN">>)
  @@ (<<"orlando">> :> <<"FL">>)
  @@ (<<"st", ".", " ", "petersburg">> :> <<"FL">>)
  @@ (<<"chandler">> :> <<"AZ">>)
  @@ (<<"laredo">> :> <<"TX">>)
  @@ (<<"norfolk">> :> <<"VA">>)
  @@ (<<"durham">> :> <<"NC">>)
  @@ (<<"madison">> :> <<"WI">>)
  @@ (<<"lubbock">> :> <<"TX">>)
  @@ (<<"irvine">> :> <<"CA">>)
  @@ (<<"winston", "-", "salem">> :> <<"NC">>)
  @@ (<<"glendale">> :> <<"AZ">>)
  @@ (<<"garland">> :> <<"TX">>)
  @@ (<<"hialeah">> :> <<"FL">>)
  @@ (<<"reno">> :> <<"NV">>)
  @@ (<<"chesapeake">> :> <<"VA">>)
  @@ (<<"gilbert">> :> <<"AZ">>)
  @@ (<<"baton", " ", "rouge">> :> <<"LA">>)
  @@ (<<"irving">> :> <<"TX">>)
  @@ (<<"scottsdale">> :> <<"AZ">>)
  @@ (<<"north", " ", "las", " ", "vegas">> :> <<"NV">>)
  @@ (<<"fremont">> :> <<"CA">>)
  @@ (<<"boise", " ", "city">> :> <<"ID">>)
  @@ (<<"richmond">> :> <<"VA">>)
  @@ (<<"san", " ", "bernardino">> :> <<"CA">>)
  @@ (<<"birmingham">> :> <<"AL">>)
  @@ (<<"spokane">> :> <<"WA">>)
  @@ (<<"rochester">> :> <<"NY">>)

commonCityZipMapping ==
     (<<"new", " ", "york">> :> <<"1", "0", "0", "0", "1">>)
  @@ (<<"los", " ", "angeles">> :> <<"9", "0", "0", "0", "1">>)
  @@ (<<"chicago">> :> <<"6", "0", "6", "0", "1">>)
  @@ (<<"houston">> :> <<"7", "7", "0", "0", "1">>)
  @@ (<<"phoenix">> :> <<"8", "5", "0", "0", "1">>)
  @@ (<<"philadelphia">> :> <<"1", "9", "1", "0", "1">>)
  @@ (<<"san", " ", "antonio">> :> <<"7", "8", "2", "0", "1">>)
  @@ (<<"san", " ", "diego">> :> <<"9", "2", "1", "0", "1">>)
  @@ (<<"dallas">> :> <<"7", "5", "2", "0", "1">>)
  @@ (<<"san", " ", "jose">> :> <<"9", "5", "1", "0", "1">>)
  @@ (<<"austin">> :> <<"7", "8", "7", "0", "1">>)
  @@ (<<"seattle">> :> <<"9", "8", "1", "0", "1">>)
  @@ (<<"denver">> :> <<"8", "0", "2", "0", "1">>)
  @@ (<<"washington">> :> <<"2", "0", "0", "0", "1">>)
  @@ (<<"boston">> :> <<"0", "2", "1", "0", "1">>)
  @@ (<<"las", " ", "vegas">> :> <<"8", "9", "1", "0", "1">>)
  @@ (<<"atlanta">> :> <<"3", "0", "3", "0", "1">>)
  @@ (<<"miami">> :> <<"3", "3", "1", "0", "1">>)
  @@ (<<"charlotte">> :> <<"2", "8", "2", "0", "1">>)
  @@ (<<"portland">> :> <<"9", "7", "2", "0", "1">>)
  @@ (<<"san", " ", "francisco">> :> <<"9", "4", "1", "0", "1">>)


\* table[key]: undefined when the key is missing.
Lookup(table, key) == IF key \in DOMAIN table THEN Str(table[key]) ELSE Undef

---------------------------------------------------------------------------
(* Pattern library: postal codes *)

\* \b between the tokens i-1 and i of s (i in 1..Len(s)+1).
WordBoundary(s, i) ==
  LET before == i > 1 /\ i - 1 <= Len(s) /\ IsWordTok(s[i - 1])
      after == i >= 1 /\ i <= Len(s) /\ IsWordTok(s[i])
  IN before # after

\* \d{n} at position i.
DigitsAt(s, i, n) == i >= 1 /\ i + n - 1 <= Len(s) /\ \A j \in i..(i + n - 1) : IsDigit(s[j])

TwoLetterTok == {"St", "TX", "NY", "AM", "PM", "st", "tx", "ny", "am", "pm"}

\* [A-Z] with the i flag, one letter at position i.
LetterAt(s, i) == i >= 1 /\ i <= Len(s) /\ IsLetter(s[i])

\* The numbers of tokens that [A-Z]{n} can take at position i (n is 1 or 2).
LettersAt(s, i, n) ==
  IF n = 1 THEN (IF LetterAt(s, i) THEN {1} ELSE {})
  ELSE (IF i >= 1 /\ i <= Len(s) /\ s[i] \in TwoLetterTok THEN {1} ELSE {})
       \cup (IF LetterAt(s, i) /\ LetterAt(s, i + 1) THEN {2} ELSE {})

\* The number of spaces from position i on.
RECURSIVE SpaceRun(_, _)
SpaceRun(s, i) == IF i >= 1 /\ i <= Len(s) /\ IsSpace(s[i]) THEN 1 + SpaceRun(s, i + 1) ELSE 0

Max(S) == CHOOSE x \in S : \A y \in S : y <= x

\* /\b\d{5}(-\d{4})?\b/ : the length of the match at i, 0 when there is none.
MatchUS(s, i) ==
  IF ~(WordBoundary(s, i) /\ DigitsAt(s, i, 5)) THEN 0
  ELSE IF i + 5 <= Len(s) /\ s[i + 5] = "-" /\ DigitsAt(s, i + 6, 4) /\ WordBoundary(s, i + 10)
       THEN 10
       ELSE IF WordBoundary(s, i + 5) THEN 5 ELSE 0

\* /\b\d{n}\b/ : AU (4 digits), DE and FR (5 digits).
MatchDigits(s, i, n) ==
  IF WordBoundary(s, i) /\ DigitsAt(s, i, n) /\ WordBoundary(s, i + n) THEN n ELSE 0

\* /\b[A-Z]\d[A-Z]\s*\d[A-Z]\d\b/i
MatchCA(s, i) ==
  IF ~(WordBoundary(s, i) /\ LetterAt(s, i) /\ DigitsAt(s, i + 1, 1) /\ LetterAt(s, i + 2)) THEN 0
  ELSE LET ok == {w \in 0..SpaceRun(s, i + 3) :
                    /\ DigitsAt(s, i + 3 + w, 1)
                    /\ LetterAt(s, i + 4 + w)
                    /\ DigitsAt(s, i + 5 + w, 1)
                    /\ WordBoundary(s, i + 6 + w)}
       IN IF ok = {} THEN 0 ELSE 6 + Max(ok)

\* /\b[A-Z]{1,2}\d[A-Z\d]?\s*\d[A-Z]{2}\b/i : the ends of all the ways to match at i.
EndsUK(s, i) ==
  { e \in (i + 1)..(Len(s) + 1) :
      \E n \in {1, 2} : \E a \in LettersAt(s, i, n) : \E o \in {0, 1} :
        \E w \in 0..SpaceRun(s, i + a + 1 + o) :
          \E z \in LettersAt(s, i + a + 2 + o + w, 2) :
            /\ DigitsAt(s, i + a, 1)
            /\ (o = 1 => (LetterAt(s, i + a + 1) \/ DigitsAt(s, i + a + 1, 1)))
            /\ DigitsAt(s, i + a + 1 + o + w, 1)
            /\ e = i + a + 2 + o + w + z
            /\ WordBoundary(s, e) }

MatchUK(s, i) ==
  IF ~WordBoundary(s, i) \/ EndsUK(s, i) = {} THEN 0 ELSE Max(EndsUK(s, i)) - i

\* postalCodePatterns[country] || postalCodePatterns.US : the match at i.
postalCodePatterns(country, s, i) ==
  CASE country = <<"CA">> -> MatchCA(s, i)
    [] country = <<"UK">> -> MatchUK(s, i)
    [] country = <<"AU">> -> MatchDigits(s, i, 4)
    [] country = <<"DE">> -> MatchDigits(s, i, 5)
    [] country = <<"FR">> -> MatchDigits(s, i, 5)
    [] OTHER -> MatchUS(s, i)

\* The positions at or after the index from (counted from 0) where the pattern matches.
MatchStarts(country, s, from) ==
  {i \in (from + 1)..Len(s) : postalCodePatterns(country, s, i) > 0}

Min(S) == CHOOSE x \in S : \A y \in S : x <= y

extractPostalCode(text, country) ==
  IF ~Truthy(text) THEN Undef
  ELSE LET s == ToStringPrim(text)
           starts == MatchStarts(country, s, 0)
       IN IF starts = {} THEN Undef
          ELSE LET i == Min(starts)
               IN Str(Trim(SubSeq(s, i, i + postalCodePatterns(country, s, i) - 1)))

\* pattern.lastIndex = 0; pattern.test(postalCode)
isValidPostalCode(postalCode, country) ==
  IF ~Truthy(postalCode) THEN FALSE
  ELSE MatchStarts(country, ToStringPrim(postalCode), 0) # {}

\* The country argument: a missing one takes the default 'US'.
CountryOf(x) == IF IsStr(x) THEN x.v ELSE <<"US">>

\* The pattern objects of the module: one per key of postalCodePatterns, each
\* a global (g) pattern that carries its lastIndex from call to call.
PatternKeys == {<<"US">>, <<"CA">>, <<"UK">>, <<"AU">>, <<"DE">>, <<"FR">>}

PatternKey(country) == IF country \in PatternKeys THEN country ELSE <<"US">>

FreshPatterns == [key \in PatternKeys |-> 0]

\* The outcome of pattern.test(s) given the positions where the pattern
\* matches from lastIndex on: lastIndex ends behind the first match, or at 0.
testOutcome(country, s, starts) ==
  IF starts = {} THEN [found |-> FALSE, lastIndex |-> 0]
  ELSE [found |-> TRUE, lastIndex |-> Min(starts) - 1 + postalCodePatterns(country, s, Min(starts))]

\* pattern.test(s) of a global pattern whose lastIndex is from.
patternTest(country, s, from) == testOutcome(country, s, MatchStarts(country, s, from))

PatternCall(result, patterns) == [result |-> result, lastIndex |-> patterns]

\* The call's result and the patterns once the tested pattern took its new lastIndex.
Tested(patterns, key, outcome) ==
  PatternCall(outcome.found, [patterns EXCEPT ![key] = outcome.lastIndex])

\* A variant that tests from wherever the last call left the pattern.
testWithoutReset(patterns, postalCode, country) ==
  IF ~Truthy(postalCode) THEN PatternCall(FALSE, patterns)
  ELSE Tested(patterns, PatternKey(country),
              patternTest(country, ToStringPrim(postalCode), patterns[PatternKey(country)]))

\* isValidPostalCode as a call on the shared patterns: its result, and the
\* patterns it leaves. pattern.lastIndex = 0 comes before pattern.test.
testPostalCode(patterns, postalCode, country) ==
  IF ~Truthy(postalCode) THEN PatternCall(FALSE, patterns)
  ELSE Tested(patterns, PatternKey(country), patternTest(country, ToStringPrim(postalCode), 0))

\* extractPostalCode as a call on the shared patterns: text.match(pattern) of
\* a global pattern starts at 0 whatever lastIndex was and leaves it at 0.
matchPostalCode(patterns, text, country) ==
  IF ~Truthy(text) THEN PatternCall(Undef, patterns)
  ELSE PatternCall(extractPostalCode(text, country),
                   [patterns EXCEPT ![PatternKey(country)] = 0])

---------------------------------------------------------------------------
(* Pattern library: time, URL, e-mail, phone *)

\* /^([0-1]?[0-9]|2[0-3]):[0-5][0-9]$/ on time.trim()
isValidTimeFormat(time) ==
  IF ~Truthy(time) THEN FALSE
  ELSE LET t == Trim(ToStringPrim(time))
           minutes(i) == t[i] = ":" /\ t[i + 1] \in {"0", "1", "2", "3", "4", "5"} /\ IsDigit(t[i + 2])
       IN \/ Len(t) = 4 /\ IsDigit(t[1]) /\ minutes(2)
          \/ /\ Len(t) = 5
             /\ \/ t[1] \in {"0", "1"} /\ IsDigit(t[2])
                \/ t[1] = "2" /\ t[2] \in {"0", "1", "2", "3"}
             /\ minutes(3)

ensureAbsoluteUrl(url) ==
  IF ~Truthy(url) THEN url
  ELSE IF StartsWith(url.v, <<"http", ":", "/", "/">>) \/ StartsWith(url.v, <<"https", ":", "/", "/">>)
       THEN url
       ELSE IF StartsWith(url.v, <<"/", "/">>)
            THEN Str(<<"https", ":">> \o url.v)
            ELSE url

SpecialScheme == {"http", "https", "ftp", "ws", "wss", "file"}

RECURSIVE SlashRun(_)
SlashRun(s) == IF s # <<>> /\ Head(s) = "/" THEN 1 + SlashRun(Tail(s)) ELSE 0

\* new URL(string) does not throw: the string, stripped of surrounding
\* spaces, starts with a scheme and a colon; a special scheme needs a host.
isValidUrl(x) ==
  LET s == Trim(ToStringPrim(x))
      colons == {i \in 1..Len(s) : s[i] = ":"}
  IN /\ colons # {}
     /\ LET c == Min(colons)
            rest == SubSeq(s, c + 1, Len(s))
            host == SubSeq(rest, SlashRun(rest) + 1, Len(rest))
            hostEnd == {i \in 1..Len(host) : host[i] \in {"/", "?"}}
            hostLen == IF hostEnd = {} THEN Len(host) ELSE Min(hostEnd) - 1
        IN /\ c >= 2
           /\ IsWordTok(s[1]) /\ ~IsDigit(s[1]) /\ s[1] # "_"
           /\ \A i \in 2..(c - 1) : (IsWordTok(s[i]) /\ s[i] # "_") \/ s[i] \in {"+", "-", "."}
           /\ (c = 2 /\ LowerTok(s[1]) \in SpecialScheme) =>
                /\ hostLen >= 1
                /\ \A i \in 1..hostLen : ~IsSpace(host[i]) /\ host[i] \notin {"[", "]", "(", ")"}

\* /^[^\s@]+@[^\s@]+\.[^\s@]+$/
isValidEmail(x) ==
  LET s == ToStringPrim(x)
      ats == {i \in 1..Len(s) : s[i] = "@"}
  IN /\ Cardinality(ats) = 1
     /\ \A i \in 1..Len(s) : ~IsSpace(s[i])
     /\ LET a == Min(ats)
        IN a > 1 /\ \E d \in (a + 2)..(Len(s) - 1) : s[d] = "."

\* phone.replace(/\D/g, '')
RECURSIVE OnlyDigits(_)
OnlyDigits(s) ==
  IF s = <<>> THEN <<>>
  ELSE (IF IsDigit(Head(s)) THEN <<Head(s)>> ELSE <<>>) \o OnlyDigits(Tail(s))

formatPhoneNumberLocal(phone) ==
  IF ~Truthy(phone) THEN phone
  ELSE LET digits == OnlyDigits(phone.v)
       IN IF Len(digits) >= 10
          THEN Str(<<"(">> \o SubSeq(digits, 1, 3) \o <<")", " ">> \o SubSeq(digits, 4, 6)
                   \o <<"-">> \o SliceFrom(digits, 6))
          ELSE phone

formatPhoneNumber(phone) ==
  IF ~Truthy(phone) THEN phone
  ELSE LET digits == OnlyDigits(phone.v)
           cleanDigits == IF StartsWith(digits, <<"4", "4">>) THEN digits
                          ELSE <<"4", "4">> \o SliceFrom(digits, 1)
       IN IF Len(digits) = 10
          THEN Str(<<"+", "1", "-">> \o SubSeq(digits, 1, 3) \o <<"-">> \o SubSeq(digits, 4, 6)
                   \o <<"-">> \o SliceFrom(digits, 6))
          ELSE IF Len(digits) = 11 /\ StartsWith(digits, <<"1">>)
          THEN Str(<<"+">> \o SubSeq(digits, 1, 1) \o <<"-">> \o SubSeq(digits, 2, 4) \o <<"-">>
                   \o SubSeq(digits, 5, 7) \o <<"-">> \o SliceFrom(digits, 7))
          ELSE IF Len(digits) >= 10 /\ Len(digits) <= 11
                  /\ (StartsWith(digits, <<"4", "4">>) \/ StartsWith(digits, <<"0">>))
          THEN Str(<<"+">> \o SubSeq(cleanDigits, 1, 2) \o <<"-">> \o SubSeq(cleanDigits, 3, 5)
                   \o <<"-">> \o SubSeq(cleanDigits, 6, 8) \o <<"-">> \o SliceFrom(cleanDigits, 8))
          ELSE IF Len(digits) >= 7 THEN Str(Trim(phone.v))
          ELSE phone

\* scraper.ts has its own formatPhoneNumber
scraperFormatPhoneNumber(phone) ==
  LET digits == OnlyDigits(phone.v)
  IN IF Len(digits) = 10
     THEN Str(<<"+", "1", "-">> \o SubSeq(digits, 1, 3) \o <<"-">> \o SubSeq(digits, 4, 6)
              \o <<"-">> \o SliceFrom(digits, 6))
     ELSE IF Len(digits) = 11 /\ StartsWith(digits, <<"1">>)
     THEN Str(<<"+">> \o SubSeq(digits, 1, 1) \o <<"-">> \o SubSeq(digits, 2, 4) \o <<"-">>
              \o SubSeq(digits, 5, 7) \o <<"-">> \o SliceFrom(digits, 7))
     ELSE phone

---------------------------------------------------------------------------
(* Pattern library: price tier, region and postal code inference *)

Tier(n) == [i \in 1..n |-> "$"]

\* /^\$+$/
IsDollars(s) == s # <<>> /\ \A i \in 1..Len(s) : s[i] = "$"

detectPriceRange(city, businessType, businessName, description) ==
  IF ~Truthy(city) THEN Str(Tier(2))
  ELSE LET cityLower == Trim(ToLower(city.v))
           cityPriceRange == Lookup(cityPriceMapping, cityLower)
           businessTypePriceRange == Lookup(businessTypePriceMapping, ToStringPrim(businessType))
           textualContent == ToLower(ToStringPrim(OrElse(businessName, Str(<<>>))) \o <<" ">>
                                     \o ToStringPrim(OrElse(description, Str(<<>>))))
           has(w) == Includes(textualContent, w)
           textualPriceIndicator ==
             IF has(<<"luxury">>) \/ has(<<"premium">>) \/ has(<<"exclusive">>) \/ has(<<"high", "-", "end">>)
             THEN Tier(4)
             ELSE IF has(<<"upscale">>) \/ has(<<"boutique">>) \/ has(<<"sophisticated">>)
             THEN Tier(3)
             ELSE IF has(<<"affordable">>) \/ has(<<"budget">>) \/ has(<<"discount">>) \/ has(<<"cheap">>)
             THEN Tier(1)
             ELSE IF has(<<"value">>) \/ has(<<"reasonable">>) \/ has(<<"moderate">>)
             THEN Tier(2)
             ELSE <<>>
       IN IF textualPriceIndicator # <<>> THEN Str(textualPriceIndicator)
          ELSE IF Truthy(cityPriceRange) THEN cityPriceRange
          ELSE IF Truthy(businessTypePriceRange) THEN businessTypePriceRange
          ELSE Str(Tier(2))

inferStateFromCity(city) ==
  IF ~Truthy(city) THEN Undef
  ELSE Lookup(cityStateMapping, Trim(ToLower(city.v)))

inferPostalCodeFromCity(city) == Lookup(commonCityZipMapping, Trim(ToLower(city.v)))

\* The first run of dollar signs of s, as cleaned.match(/\$+/) returns it.
RECURSIVE DollarRun(_)
DollarRun(s) == IF s # <<>> /\ Head(s) = "$" THEN <<"$">> \o DollarRun(Tail(s)) ELSE <<>>

RECURSIVE FirstDollars(_)
FirstDollars(s) ==
  IF s = <<>> THEN <<>>
  ELSE IF Head(s) = "$" THEN DollarRun(s) ELSE FirstDollars(Tail(s))

validatePriceRange(priceRange) ==
  IF ~Truthy(priceRange) THEN priceRange
  ELSE LET cleaned == Trim(priceRange.v)
           lowerPrice == ToLower(cleaned)
           has(w) == Includes(lowerPrice, w)
       IN IF IsDollars(cleaned) THEN Str(cleaned)
          ELSE IF has(<<"luxury">>) \/ has(<<"exclusive">>) \/ has(<<"premium">>)
                  \/ has(<<"very", " ", "expensive">>)
          THEN Str(Tier(4))
          ELSE IF has(<<"expensive">>) \/ has(<<"upscale">>) \/ has(<<"high", "-", "end">>)
          THEN Str(Tier(3))
          ELSE IF has(<<"moderate">>) \/ has(<<"mid", "-", "range">>) \/ has(<<"reasonable">>)
          THEN Str(Tier(2))
          ELSE IF has(<<"inexpensive">>) \/ has(<<"cheap">>) \/ has(<<"budget">>) \/ has(<<"affordable">>)
          THEN Str(Tier(1))
          ELSE IF FirstDollars(cleaned) # <<>> THEN Str(FirstDollars(cleaned))
          ELSE Str(Tier(2))

---------------------------------------------------------------------------
(* Tree cleaner: cleanObject *)

TypeOf(o) == Get(o, "@type")
HasType(o, name) == TypeOf(o) = Str(<<name>>)

\* `${a || ''}` : the text a template literal inserts.
Text(x) == ToStringPrim(OrElse(x, Str(<<>>)))

\* x.trim() when x is set.
TrimIfSet(o, key) == IF Truthy(Get(o, key)) THEN Put(o, key, Str(Trim(Get(o, key).v))) ELSE o

\* Question: a named question without an answer gets the stock answer.
RuleQuestion(o) ==
  IF HasType(o, "Question") /\ ~Truthy(Get(o, "acceptedAnswer")) /\ Truthy(Get(o, "name"))
  THEN Put(o, "acceptedAnswer",
           Obj([x \in {"@type", "text"} |->
                  IF x = "@type" THEN Str(<<"Answer">>)
                  ELSE Str(<<"Contact", " ", "us", " ", "for", " ", "more", " ", "information", ".">>)]))
  ELSE o

\* OpeningHoursSpecification: day, opens and closes set, both times well formed.
RuleOpeningHours(o) ==
  IF ~HasType(o, "OpeningHoursSpecification") THEN o
  ELSE IF ~Truthy(Get(o, "dayOfWeek")) \/ ~Truthy(Get(o, "opens")) \/ ~Truthy(Get(o, "closes"))
       THEN Null
       ELSE IF ~isValidTimeFormat(Get(o, "opens")) \/ ~isValidTimeFormat(Get(o, "closes"))
            THEN Null
            ELSE o

\* GeoCoordinates: both coordinates truthy and not out of range.
GeoOutOfRange(lat, lng) ==
  NumLt(lat, Lit(-90)) \/ NumGt(lat, Lit(90)) \/ NumLt(lng, Lit(-180)) \/ NumGt(lng, Lit(180))

RuleGeo(o) ==
  IF ~HasType(o, "GeoCoordinates") THEN o
  ELSE IF ~Truthy(Get(o, "latitude")) \/ ~Truthy(Get(o, "longitude")) THEN Null
       ELSE IF GeoOutOfRange(parseFloat(Get(o, "latitude")), parseFloat(Get(o, "longitude")))
            THEN Null
            ELSE o

\* AggregateRating: both values truthy and not out of bounds; then rewritten.
RatingChecked(o, rating, count) ==
  IF NumLt(rating, Lit(1)) \/ NumGt(rating, Lit(5)) \/ NumLt(count, Lit(1))
  THEN Null
  ELSE Put(Put(Put(Put(o,
         "ratingValue", Str(NumToString(rating))),
         "reviewCount", Str(NumToString(count))),
         "bestRating", Str(<<"5">>)),
         "worstRating", Str(<<"1">>))

RuleRating(o) ==
  IF ~HasType(o, "AggregateRating") THEN o
  ELSE IF ~Truthy(Get(o, "ratingValue")) \/ ~Truthy(Get(o, "reviewCount")) THEN Null
       ELSE RatingChecked(o, parseFloat(Get(o, "ratingValue")), parseInt(Get(o, "reviewCount")))

AddressOnRequest == <<"Address", " ", "available", " ", "upon", " ", "request">>
LocalArea == <<"Local", " ", "Area">>
StateLiteral == <<"State">>

\* PostalAddress, first step: look for a postal code in the address text.
AddressExtract(o) ==
  IF ~Truthy(Get(o, "postalCode"))
     /\ (Truthy(Get(o, "streetAddress")) \/ Truthy(Get(o, "addressLocality")))
  THEN LET fullAddressText ==
             Trim(Text(Get(o, "streetAddress")) \o <<" ">> \o Text(Get(o, "addressLocality"))
                  \o <<" ">> \o Text(Get(o, "addressRegion")))
       IN Put(o, "postalCode",
              extractPostalCode(Str(fullAddressText), CountryOf(OrElse(Get(o, "addressCountry"), Str(<<"US">>)))))
  ELSE o

\* PostalAddress, second step: an invalid postal code is deleted.
AddressValidate(o) ==
  IF Truthy(Get(o, "postalCode"))
     /\ ~isValidPostalCode(Get(o, "postalCode"), CountryOf(OrElse(Get(o, "addressCountry"), Str(<<"US">>))))
  THEN Del(o, "postalCode")
  ELSE o

\* PostalAddress, third step: the placeholders.
DefaultStreet(o) ==
  IF ~Truthy(Get(o, "streetAddress"))
     /\ (Truthy(Get(o, "addressLocality")) \/ Truthy(Get(o, "addressRegion")))
  THEN Put(o, "streetAddress", Str(AddressOnRequest)) ELSE o

DefaultLocality(o) ==
  IF ~Truthy(Get(o, "addressLocality")) /\ Truthy(Get(o, "addressRegion"))
  THEN Put(o, "addressLocality", Str(LocalArea)) ELSE o

DefaultRegionLiteral(o) ==
  IF ~Truthy(Get(o, "addressRegion")) /\ Truthy(Get(o, "addressLocality"))
  THEN Put(o, "addressRegion", Str(StateLiteral))
  ELSE o

DefaultRegion(o) ==
  IF ~Truthy(Get(o, "addressRegion")) /\ Truthy(Get(o, "addressLocality"))
  THEN Put(o, "addressRegion",
           OrElse(inferStateFromCity(Get(o, "addressLocality")), Str(StateLiteral)))
  ELSE o

AddressDefaults(o) == DefaultRegion(DefaultLocality(DefaultStreet(o)))

\* PostalAddress, last step: trim the components, default the country.
DefaultCountry(o) == Put(o, "addressCountry", OrElse(Get(o, "addressCountry"), Str(<<"US">>)))

AddressTrim(o) ==
  TrimIfSet(DefaultCountry(TrimIfSet(TrimIfSet(TrimIfSet(o, "streetAddress"),
                                               "addressLocality"), "addressRegion")),
            "postalCode")

\* PostalAddress after the postal code was settled: without any address
\* data the node is rejected.
AddressComplete(o) ==
  IF ~(\/ Truthy(Get(o, "streetAddress"))
       \/ Truthy(Get(o, "addressLocality"))
       \/ Truthy(Get(o, "addressRegion"))
       \/ Truthy(Get(o, "postalCode")))
  THEN Null
  ELSE AddressTrim(AddressDefaults(o))

RulePostalAddress(o) ==
  IF ~HasType(o, "PostalAddress") THEN o
  ELSE AddressComplete(AddressValidate(AddressExtract(o)))

\* ImageObject: needs a url.
RuleImage(o) ==
  IF ~HasType(o, "ImageObject") THEN o
  ELSE IF ~Truthy(Get(o, "url")) THEN Null
       ELSE Put(o, "url", ensureAbsoluteUrl(Get(o, "url")))

\* The node types cleanObject treats as a business.
businessTypes ==
  {"LocalBusiness", "Restaurant", "ProfessionalService", "LegalService",
   "MedicalBusiness", "HomeAndConstructionBusiness", "AutomotiveBusiness", "Organization"}

IsBusinessNode(o) == IsStr(TypeOf(o)) /\ \E b \in businessTypes : TypeOf(o).v = <<b>>

RECURSIVE MapAbsolute(_)
MapAbsolute(a) ==
  IF a = <<>> THEN <<>> ELSE <<ensureAbsoluteUrl(Head(a))>> \o MapAbsolute(Tail(a))

\* Business node: name required, phone formatted, bad e-mail deleted, price
\* tier detected from the city, urls made absolute, bad social links dropped.
BusinessPhone(o) ==
  IF Truthy(Get(o, "telephone"))
  THEN Put(o, "telephone", formatPhoneNumber(Get(o, "telephone"))) ELSE o

BusinessEmail(o) ==
  IF Truthy(Get(o, "email")) /\ ~isValidEmail(Get(o, "email")) THEN Del(o, "email") ELSE o

BusinessPriceAlways(o) ==
  IF Truthy(Get(Get(o, "address"), "addressLocality"))
  THEN Put(o, "priceRange",
           detectPriceRange(Get(Get(o, "address"), "addressLocality"), TypeOf(o),
                            Get(o, "name"), Get(o, "description")))
  ELSE o

BusinessPrice(o) ==
  IF ~Truthy(Get(o, "priceRange")) /\ Truthy(Get(Get(o, "address"), "addressLocality"))
  THEN Put(o, "priceRange",
           detectPriceRange(Get(Get(o, "address"), "addressLocality"), TypeOf(o),
                            Get(o, "name"), Get(o, "description")))
  ELSE o

BusinessUrl(o) ==
  IF Truthy(Get(o, "url")) THEN Put(o, "url", ensureAbsoluteUrl(Get(o, "url"))) ELSE o

BusinessSameAs(o) ==
  IF IsArr(Get(o, "sameAs"))
  THEN Put(o, "sameAs", Arr(SelectSeq(MapAbsolute(Get(o, "sameAs").v), isValidUrl)))
  ELSE o

RuleBusiness(o) ==
  IF ~IsBusinessNode(o) THEN o
  ELSE IF ~Truthy(Get(o, "name")) THEN Null
  ELSE BusinessSameAs(BusinessUrl(BusinessPrice(BusinessEmail(BusinessPhone(o)))))

\* WebPage: the url made absolute.
RuleWebPage(o) ==
  IF HasType(o, "WebPage") /\ Truthy(Get(o, "url"))
  THEN Put(o, "url", ensureAbsoluteUrl(Get(o, "url")))
  ELSE o

\* The type-specific rules of a node, in source order. A rule that rejects
\* the node returns null, and null is of no type, so no later rule acts on it.
TypeRules(o) ==
  IF ~Truthy(TypeOf(o)) THEN o
  ELSE RuleWebPage(RuleBusiness(RuleImage(RulePostalAddress(
         RuleRating(RuleGeo(RuleOpeningHours(RuleQuestion(o))))))))

\* The array filter: v == null || v === '' is dropped.
NotNullOrEmpty(x) == x.k \notin {"undefined", "null"} /\ ~(IsStr(x) /\ x.v = <<>>)

\* What the reduce keeps of a cleaned value.
KeepValue(c) ==
  /\ NotNullOrEmpty(c)
  /\ IsArr(c) => Len(c.v) > 0
  /\ IsObj(c) => (DOMAIN c.v # {} \/ Truthy(TypeOf(c)))

\* The reduce over the keys of a node: the cleaned values worth keeping.
Reduce(cleaned) == Obj([key \in {x \in DOMAIN cleaned : KeepValue(cleaned[x])} |-> cleaned[key]])

RECURSIVE cleanObject(_)

\* The node after its type rules: null when rejected, else its members cleaned.
CleanMembers(o) ==
  IF o = Null THEN Null
  ELSE Reduce([key \in DOMAIN o.v |->
                 IF IsObj(o.v[key]) \/ IsArr(o.v[key]) THEN cleanObject(o.v[key]) ELSE o.v[key]])

cleanObject(obj) ==
  IF IsArr(obj)
  THEN Arr(SelectSeq([i \in 1..Len(obj.v) |->
                        IF IsObj(obj.v[i]) \/ IsArr(obj.v[i]) THEN cleanObject(obj.v[i]) ELSE obj.v[i]],
                     NotNullOrEmpty))
  ELSE IF IsObj(obj) THEN CleanMembers(TypeRules(obj))
  ELSE obj

\* The country of an address node: obj.addressCountry || 'US'.
AddressCountry(o) == CountryOf(OrElse(Get(o, "addressCountry"), Str(<<"US">>)))

\* The patterns after the first step of the PostalAddress rule: the text
\* handed to extractPostalCode is the trimmed join of street, city and region.
ExtractPatterns(patterns, o) ==
  IF ~Truthy(Get(o, "postalCode"))
     /\ (Truthy(Get(o, "streetAddress")) \/ Truthy(Get(o, "addressLocality")))
  THEN matchPostalCode(patterns,
                       Str(Trim(Text(Get(o, "streetAddress")) \o <<" ">> \o Text(Get(o, "addressLocality"))
                                \o <<" ">> \o Text(Get(o, "addressRegion")))),
                       AddressCountry(o)).lastIndex
  ELSE patterns

\* The patterns after the PostalAddress rule: obj.postalCode && !isValidPostalCode(...)
\* tests the postal code the first step left.
AddressPatterns(patterns, o) ==
  testPostalCode(ExtractPatterns(patterns, o), Get(AddressExtract(o), "postalCode"),
                 AddressCountry(o)).lastIndex

\* An address node's rule calls on its pattern when it tests a postal code or
\* hands a text to extractPostalCode.
AddressTouches(o) ==
  \/ Truthy(Get(o, "postalCode"))
  \/ /\ Truthy(Get(o, "streetAddress")) \/ Truthy(Get(o, "addressLocality"))
     /\ Trim(Text(Get(o, "streetAddress")) \o <<" ">> \o Text(Get(o, "addressLocality"))
             \o <<" ">> \o Text(Get(o, "addressRegion"))) # <<>>

\* The lastIndex a node's own rule leaves, for the pattern it used. Every
\* call starts its pattern at 0, so what it leaves does not depend on what it found.
OwnTouched(o) ==
  IF HasType(o, "PostalAddress") /\ AddressTouches(o)
  THEN PatternKey(AddressCountry(o)) :> AddressPatterns(FreshPatterns, o)[PatternKey(AddressCountry(o))]
  ELSE <<>>

\* The lastIndex left by a node's rule and by the cleaning of its members
\* (members maps each to what its cleaning left). The members come after
\* the rule. A function keeps no insertion order: which member counts as the
\* later one matters only to a document with two address nodes of one
\* country, and then only to lastIndex.
MergeTouched(own, members) ==
  [key \in DOMAIN own \cup UNION {DOMAIN members[m] : m \in DOMAIN members} |->
     IF \E m \in DOMAIN members : key \in DOMAIN members[m]
     THEN members[CHOOSE m \in DOMAIN members : key \in DOMAIN members[m]][key]
     ELSE own[key]]

\* The members of a node that cleanObject descends into.
Composite(f) == {key \in DOMAIN f : IsObj(f[key]) \/ IsArr(f[key])}

RECURSIVE cleanTouched(_)

\* The lastIndex left once the members of a node or the elements of an array
\* were cleaned after the node's own rule.
Touched(own, node) ==
  CHOOSE r \in {MergeTouched(own, members) :
                  members \in {[key \in Composite(n.v) |-> cleanTouched(n.v[key])] : n \in {node}}} : TRUE

MembersTouched(own, ruled) == IF ruled = Null THEN own ELSE Touched(own, ruled)

\* The patterns cleanObject(obj) used, each with the lastIndex it is left with.
cleanTouched(obj) ==
  IF IsArr(obj) THEN Touched(<<>>, obj)
  ELSE IF IsObj(obj) THEN MembersTouched(OwnTouched(obj), TypeRules(obj))
  ELSE <<>>

\* The shared patterns after cleanObject(obj).
cleanPatterns(patterns, obj) == cleanTouched(obj) @@ patterns

---------------------------------------------------------------------------
(* Form validation: validateFormData *)

\* fd.x?.trim() is truthy
TrimTruthy(x) == IsStr(x) /\ Trim(x.v) # <<>>

\* One message when the condition holds.
MsgIf(cond, msg) == IF cond THEN <<msg>> ELSE <<>>

\* The required-field errors of each content type.
\* A variant that reports a missing address as one problem.
RequiredErrorsJoined(fd, isAi) ==
  IF Get(fd, "contentType") = Str(<<"Article">>)
  THEN MsgIf(~TrimTruthy(Get(fd, "headline")), "Article headline is required")
       \o MsgIf(~TrimTruthy(Get(fd, "authorName")), "Author name is required")
       \o MsgIf(~TrimTruthy(Get(fd, "publisherName")), "Publisher name is required")
  ELSE IF Get(fd, "contentType") = Str(<<"HowTo">>)
  THEN MsgIf(~TrimTruthy(Get(fd, "howToName")), "How-to title is required")
  ELSE MsgIf(~TrimTruthy(Get(fd, "name")), "Business name is required")
       \o MsgIf(~TrimTruthy(Get(fd, "description")), "Business description is required")
       \o MsgIf(~isAi /\ (\/ ~TrimTruthy(Get(fd, "streetAddress"))
                           \/ ~TrimTruthy(Get(fd, "addressLocality"))
                           \/ ~TrimTruthy(Get(fd, "addressRegion"))),
                "Address is required")

\* A variant that asks for some address data in lenient mode too.
RequiredErrorsAnyAddress(fd, isAi) ==
  IF Get(fd, "contentType") = Str(<<"Article">>)
  THEN MsgIf(~TrimTruthy(Get(fd, "headline")), "Article headline is required")
       \o MsgIf(~TrimTruthy(Get(fd, "authorName")), "Author name is required")
       \o MsgIf(~TrimTruthy(Get(fd, "publisherName")), "Publisher name is required")
  ELSE IF Get(fd, "contentType") = Str(<<"HowTo">>)
  THEN MsgIf(~TrimTruthy(Get(fd, "howToName")), "How-to title is required")
  ELSE MsgIf(~TrimTruthy(Get(fd, "name")), "Business name is required")
       \o MsgIf(~TrimTruthy(Get(fd, "description")), "Business description is required")
       \o (IF ~isAi
           THEN MsgIf(~TrimTruthy(Get(fd, "streetAddress")), "Street address is required")
                \o MsgIf(~TrimTruthy(Get(fd, "addressLocality")), "City is required")
                \o MsgIf(~TrimTruthy(Get(fd, "addressRegion")), "State/Region is required")
           ELSE MsgIf(~(\/ TrimTruthy(Get(fd, "streetAddress"))
                        \/ TrimTruthy(Get(fd, "addressLocality"))
                        \/ TrimTruthy(Get(fd, "addressRegion"))
                        \/ TrimTruthy(Get(fd, "postalCode"))),
                      "Address information is required"))

RequiredErrors(fd, isAi) ==
  IF Get(fd, "contentType") = Str(<<"Article">>)
  THEN MsgIf(~TrimTruthy(Get(fd, "headline")), "Article headline is required")
       \o MsgIf(~TrimTruthy(Get(fd, "authorName")), "Author name is required")
       \o MsgIf(~TrimTruthy(Get(fd, "publisherName")), "Publisher name is required")
  ELSE IF Get(fd, "contentType") = Str(<<"HowTo">>)
  THEN MsgIf(~TrimTruthy(Get(fd, "howToName")), "How-to title is required")
  ELSE MsgIf(~TrimTruthy(Get(fd, "name")), "Business name is required")
       \o MsgIf(~TrimTruthy(Get(fd, "description")), "Business description is required")
       \o (IF ~isAi
           THEN MsgIf(~TrimTruthy(Get(fd, "streetAddress")), "Street address is required")
                \o MsgIf(~TrimTruthy(Get(fd, "addressLocality")), "City is required")
                \o MsgIf(~TrimTruthy(Get(fd, "addressRegion")), "State/Region is required")
           ELSE <<>>)

IsBusinessForm(fd) ==
  Get(fd, "contentType") \notin {Str(<<"Article">>), Str(<<"HowTo">>)}

\* The lenient address check only writes a warning.
AddressWarnings(fd, isAi) ==
  MsgIf(IsBusinessForm(fd) /\ isAi
        /\ ~(\/ TrimTruthy(Get(fd, "streetAddress"))
             \/ TrimTruthy(Get(fd, "addressLocality"))
             \/ TrimTruthy(Get(fd, "addressRegion"))
             \/ TrimTruthy(Get(fd, "postalCode"))),
        "No address information found - will use placeholders")

\* The checks of a field: whether the value, when set, fails its validator.
PostalInvalid(fd) ==
  /\ IsBusinessForm(fd)
  /\ TrimTruthy(Get(fd, "postalCode"))
  /\ ~isValidPostalCode(Get(fd, "postalCode"),
                        CountryOf(OrElse(Get(fd, "addressCountry"), Str(<<"US">>))))

EmailInvalid(fd) ==
  Truthy(Get(fd, "email")) /\ ~isValidEmail(Get(fd, "email"))

UrlInvalid(fd, key) ==
  Truthy(Get(fd, key)) /\ ~isValidUrl(Get(fd, key))

\* isNaN(n) || n < lo || n > hi for the parsed field, when the field is set.
OutOfRange(n, lo, hi) == isNaN(n) \/ NumLt(n, Lit(lo)) \/ NumGt(n, Lit(hi))

LatitudeInvalid(fd) ==
  Truthy(Get(fd, "latitude")) /\ OutOfRange(parseFloat(Get(fd, "latitude")), -90, 90)

LongitudeInvalid(fd) ==
  Truthy(Get(fd, "longitude")) /\ OutOfRange(parseFloat(Get(fd, "longitude")), -180, 180)

RatingInvalid(fd) ==
  /\ Truthy(Get(fd, "ratingValue"))
  /\ LET rating == parseFloat(Get(fd, "ratingValue"))
     IN isNaN(rating) \/ NumLt(rating, Lit(1)) \/ NumGt(rating, Lit(5))

ReviewCountInvalid(fd) ==
  /\ Truthy(Get(fd, "reviewCount"))
  /\ LET count == parseInt(Get(fd, "reviewCount"))
     IN isNaN(count) \/ NumLt(count, Lit(1))

\* delete cleanedData.key when the condition holds.
DelIf(cond, o, key) == IF cond THEN Del(o, key) ELSE o

\* The postal code of the cleaned data: removed when invalid, inferred from
\* the city when missing.
CleanPostal(fd, isAi, inferredZip) ==
  IF ~IsBusinessForm(fd) THEN fd
  ELSE IF TrimTruthy(Get(fd, "postalCode"))
  THEN DelIf(isAi /\ PostalInvalid(fd), fd, "postalCode")
  ELSE IF isAi /\ TrimTruthy(Get(fd, "addressLocality")) /\ Truthy(inferredZip)
  THEN Put(fd, "postalCode", inferredZip)
  ELSE fd

\* return { isValid: errors.length === 0, errors, cleanedData }, and with it
\* the warnings written to the console.
Verdict(errors, cleanedData, warnings) ==
  [isValid |-> errors = <<>>, errors |-> errors, cleanedData |-> cleanedData, warnings |-> warnings]

\* The price tier: detected when none is given and the city is known.
CleanPrice(fd, c) ==
  IF IsBusinessForm(fd) /\ ~TrimTruthy(Get(fd, "priceRange")) /\ TrimTruthy(Get(fd, "addressLocality"))
  THEN Put(c, "priceRange",
           detectPriceRange(Get(fd, "addressLocality"),
                            OrElse(Get(fd, "contentType"), Str(<<"LocalBusiness">>)),
                            Get(fd, "name"), Get(fd, "description")))
  ELSE c

CleanPhone(fd, c) ==
  IF Truthy(Get(fd, "telephone"))
  THEN Put(c, "telephone", formatPhoneNumber(Get(fd, "telephone")))
  ELSE c

\* In lenient mode the fields that fail their check are deleted.
CleanInvalid(fd, isAi, c) ==
  DelIf(isAi /\ ReviewCountInvalid(fd),
    DelIf(isAi /\ RatingInvalid(fd),
      DelIf(isAi /\ LongitudeInvalid(fd),
        DelIf(isAi /\ LatitudeInvalid(fd),
          DelIf(isAi /\ UrlInvalid(fd, "publisherLogoUrl"),
            DelIf(isAi /\ UrlInvalid(fd, "websiteUrl"),
              DelIf(isAi /\ EmailInvalid(fd), c, "email"),
              "websiteUrl"),
            "publisherLogoUrl"),
          "latitude"),
        "longitude"),
      "ratingValue"),
    "reviewCount")

CleanPriceRange(fd, c) ==
  IF Truthy(Get(fd, "priceRange"))
  THEN Put(c, "priceRange", validatePriceRange(Get(fd, "priceRange")))
  ELSE c

\* A variant that reports the required fields only.
RequiredOnly(fd, isAi) == RequiredErrors(fd, isAi)

FormErrors(fd, isAi) ==
  RequiredErrors(fd, isAi)
  \o MsgIf(~isAi /\ PostalInvalid(fd), "Invalid postal code format")
  \o MsgIf(~isAi /\ EmailInvalid(fd), "Invalid email format")
  \o MsgIf(~isAi /\ UrlInvalid(fd, "websiteUrl"), "Invalid website URL")
  \o MsgIf(~isAi /\ UrlInvalid(fd, "publisherLogoUrl"), "Invalid publisher logo URL")
  \o MsgIf(~isAi /\ LatitudeInvalid(fd), "Invalid latitude (must be between -90 and 90)")
  \o MsgIf(~isAi /\ LongitudeInvalid(fd), "Invalid longitude (must be between -180 and 180)")
  \o MsgIf(~isAi /\ RatingInvalid(fd), "Rating must be between 1 and 5")
  \o MsgIf(~isAi /\ ReviewCountInvalid(fd), "Review count must be a positive number")

FormWarnings(fd, isAi) ==
  AddressWarnings(fd, isAi)
  \o MsgIf(isAi /\ PostalInvalid(fd), "Invalid postal code format - removing from schema")
  \o MsgIf(isAi /\ EmailInvalid(fd), "Invalid email format - removing from schema")
  \o MsgIf(isAi /\ UrlInvalid(fd, "websiteUrl"), "Invalid website URL - removing from schema")
  \o MsgIf(isAi /\ UrlInvalid(fd, "publisherLogoUrl"), "Invalid publisher logo URL - removing from schema")
  \o MsgIf(isAi /\ LatitudeInvalid(fd), "Invalid latitude - removing from schema")
  \o MsgIf(isAi /\ LongitudeInvalid(fd), "Invalid longitude - removing from schema")
  \o MsgIf(isAi /\ RatingInvalid(fd), "Invalid rating - removing from schema")
  \o MsgIf(isAi /\ ReviewCountInvalid(fd), "Invalid review count - removing from schema")

validateFormData(fd, isAi) ==
  Verdict(FormErrors(fd, isAi),
          CleanPriceRange(fd,
            CleanInvalid(fd, isAi,
              CleanPhone(fd,
                CleanPrice(fd,
                  CleanPostal(fd, isAi, inferPostalCodeFromCity(Get(fd, "addressLocality"))))))),
          FormWarnings(fd, isAi))

\* The shared patterns after validateFormData(fd): a business-like form with
\* a postal code has it tested.
validatePatterns(patterns, fd) ==
  IF IsBusinessForm(fd) /\ TrimTruthy(Get(fd, "postalCode"))
  THEN testPostalCode(patterns, Get(fd, "postalCode"),
                      CountryOf(OrElse(Get(fd, "addressCountry"), Str(<<"US">>)))).lastIndex
  ELSE patterns

---------------------------------------------------------------------------
(* Shallow validator: validateSchema *)

\* The node types validateSchema treats as a business.
schemaBusinessTypes ==
  {"LocalBusiness", "Restaurant", "ProfessionalService", "LegalService", "MedicalBusiness",
   "HVACBusiness", "HomeAndConstructionBusiness", "AutomotiveBusiness"}

IsSchemaBusiness(o) == IsStr(TypeOf(o)) /\ \E b \in schemaBusinessTypes : TypeOf(o).v = <<b>>

\* The social links that fail, each reported with its index (counted from 0).
RECURSIVE SocialErrors(_, _)
SocialErrors(a, index) ==
  IF a = <<>> THEN <<>>
  ELSE MsgIf(~isValidUrl(Head(a)), "Invalid social media URL at index " \o ToString(index))
       \o SocialErrors(Tail(a), index + 1)

WebPageErrors(schema) ==
  IF ~HasType(schema, "WebPage") THEN <<>>
  ELSE (IF ~Truthy(Get(schema, "url")) THEN <<"WebPage schema missing url property">>
        ELSE MsgIf(~isValidUrl(Get(schema, "url")), "WebPage schema has invalid URL"))
       \o MsgIf(~Truthy(Get(schema, "name")) /\ ~Truthy(Get(Get(schema, "mainEntity"), "name")),
                "WebPage schema missing name property")

RatingErrors(rating, reviewCount) ==
  MsgIf(isNaN(rating) \/ NumLt(rating, Lit(1)) \/ NumGt(rating, Lit(5)),
        "Invalid rating value (must be between 1 and 5)")
  \o MsgIf(isNaN(reviewCount) \/ NumLt(reviewCount, Lit(1)),
           "Invalid review count (must be positive number)")

GeoErrors(lat, lng) ==
  MsgIf(OutOfRange(lat, -90, 90), "Invalid latitude (must be between -90 and 90)")
  \o MsgIf(OutOfRange(lng, -180, 180), "Invalid longitude (must be between -180 and 180)")

BusinessErrors(business) ==
  MsgIf(~Truthy(Get(business, "name")), "Business schema missing name property")
  \o (IF Truthy(Get(business, "aggregateRating"))
      THEN RatingErrors(parseFloat(Get(Get(business, "aggregateRating"), "ratingValue")),
                        parseInt(Get(Get(business, "aggregateRating"), "reviewCount")))
      ELSE <<>>)
  \o (IF Truthy(Get(business, "geo"))
      THEN GeoErrors(parseFloat(Get(Get(business, "geo"), "latitude")),
                     parseFloat(Get(Get(business, "geo"), "longitude")))
      ELSE <<>>)
  \o MsgIf(Truthy(Get(business, "email")) /\ ~isValidEmail(Get(business, "email")),
           "Invalid email format")
  \o MsgIf(Truthy(Get(business, "url")) /\ ~isValidUrl(Get(business, "url")),
           "Invalid business URL format")
  \o (IF IsArr(Get(business, "sameAs")) THEN SocialErrors(Get(business, "sameAs").v, 0) ELSE <<>>)

ArticleErrors(schema) ==
  IF ~HasType(schema, "Article") THEN <<>>
  ELSE MsgIf(~Truthy(Get(schema, "headline")), "Article schema missing headline")
       \o MsgIf(~Truthy(Get(schema, "author")) \/ ~Truthy(Get(Get(schema, "author"), "name")),
                "Article schema missing author name")
       \o MsgIf(~Truthy(Get(schema, "publisher")) \/ ~Truthy(Get(Get(schema, "publisher"), "name")),
                "Article schema missing publisher name")
       \o MsgIf(~Truthy(Get(schema, "datePublished")), "Article schema missing datePublished")

HowToErrors(schema) ==
  IF ~HasType(schema, "HowTo") THEN <<>>
  ELSE MsgIf(~Truthy(Get(schema, "name")), "HowTo schema missing name")
       \o MsgIf(~IsArr(Get(schema, "step")) \/ Get(schema, "step") = Arr(<<>>),
                "HowTo schema missing steps")

\* return { isValid: errors.length === 0, errors }
SchemaVerdict(errors) == [isValid |-> errors = <<>>, errors |-> errors]

\* The business node of a schema: the page's main entity, or the schema itself.
BusinessOf(schema) == IF HasType(schema, "WebPage") THEN Get(schema, "mainEntity") ELSE schema

HasBusiness(schema) ==
  \/ IsSchemaBusiness(schema)
  \/ (Truthy(Get(schema, "mainEntity")) /\ IsSchemaBusiness(Get(schema, "mainEntity")))

FirstErrors(schema) ==
  MsgIf(~Truthy(Get(schema, "@context")), "Missing @context property")
  \o MsgIf(~Truthy(TypeOf(schema)), "Missing @type property")
  \o WebPageErrors(schema)

validateSchema(schema) ==
  IF ~IsObj(schema)
  THEN [isValid |-> FALSE, errors |-> <<"Schema must be an object">>]
  ELSE IF HasBusiness(schema) /\ ~Truthy(BusinessOf(schema))
  THEN [isValid |-> FALSE, errors |-> FirstErrors(schema) \o <<"Business entity is missing">>]
  ELSE SchemaVerdict(FirstErrors(schema)
                     \o (IF HasBusiness(schema) THEN BusinessErrors(BusinessOf(schema)) ELSE <<>>)
                     \o ArticleErrors(schema)
                     \o HowToErrors(schema))

\* The shared patterns after validateSchema(schema): the postal code of a
\* business's address is tested, with the address's country or the default.
schemaPatterns(patterns, schema) ==
  IF IsObj(schema) /\ HasBusiness(schema) /\ Truthy(BusinessOf(schema))
     /\ Truthy(Get(BusinessOf(schema), "address"))
  THEN testPostalCode(patterns, Get(Get(BusinessOf(schema), "address"), "postalCode"),
                      CountryOf(Get(Get(BusinessOf(schema), "address"), "addressCountry"))).lastIndex
  ELSE patterns

---------------------------------------------------------------------------
(* Business hours: formatBusinessHours *)

\* The first position at or after from where s holds tok, 0 when there is none.
IndexOf(s, tok, from) ==
  LET at == {i \in from..Len(s) : s[i] = tok}
  IN IF at = {} THEN 0 ELSE Min(at)

\* String.prototype.split('\n')
RECURSIVE Split(_, _)
Split(s, sep) ==
  LET i == IndexOf(s, sep, 1)
  IN IF i = 0 THEN <<s>> ELSE <<SubSeq(s, 1, i - 1)>> \o Split(SubSeq(s, i + 1, Len(s)), sep)

NonBlank(line) == Trim(line) # <<>>

dayMapping ==
     (<<"monday">> :> <<"Monday">>)
  @@ (<<"tuesday">> :> <<"Tuesday">>)
  @@ (<<"wednesday">> :> <<"Wednesday">>)
  @@ (<<"thursday">> :> <<"Thursday">>)
  @@ (<<"friday">> :> <<"Friday">>)
  @@ (<<"saturday">> :> <<"Saturday">>)
  @@ (<<"sunday">> :> <<"Sunday">>)
  @@ (<<"mon">> :> <<"Monday">>)
  @@ (<<"tue">> :> <<"Tuesday">>)
  @@ (<<"wed">> :> <<"Wednesday">>)
  @@ (<<"thu">> :> <<"Thursday">>)
  @@ (<<"fri">> :> <<"Friday">>)
  @@ (<<"sat">> :> <<"Saturday">>)
  @@ (<<"sun">> :> <<"Sunday">>)

\* The tail :\s*([^-]+)-(.+)$ of both line patterns, applied to the text r
\* that follows the colon: the start and end time groups, when it matches.
TimeRange(r) ==
  LET d == IndexOf(r, "-", 1)
      w == SpaceRun(r, 1)
      from == IF w >= d - 1 THEN d - 1 ELSE w + 1
  IN IF d <= 1 \/ d = Len(r) THEN [ok |-> FALSE]
     ELSE [ok |-> TRUE, startTime |-> SubSeq(r, from, d - 1), endTime |-> SubSeq(r, d + 1, Len(r))]

\* /^([^:]+):\s*([^-]+)-(.+)$/i
LineMatch(line) ==
  LET c == IndexOf(line, ":", 1)
      tr == TimeRange(SubSeq(line, c + 1, Len(line)))
  IN IF c <= 1 \/ ~tr.ok THEN [ok |-> FALSE]
     ELSE [ok |-> TRUE, dayPart |-> SubSeq(line, 1, c - 1),
           startTime |-> tr.startTime, endTime |-> tr.endTime]

\* /^([^-]+)-([^:]+):\s*([^-]+)-(.+)$/i
LineRangeMatch(line) ==
  LET d == IndexOf(line, "-", 1)
      c == IF d = 0 THEN 0 ELSE IndexOf(line, ":", d + 1)
      tr == TimeRange(SubSeq(line, c + 1, Len(line)))
  IN IF d <= 1 \/ c <= d + 1 \/ ~tr.ok THEN [ok |-> FALSE]
     ELSE [ok |-> TRUE, startDay |-> SubSeq(line, 1, d - 1), endDay |-> SubSeq(line, d + 1, c - 1),
           startTime |-> tr.startTime, endTime |-> tr.endTime]

OpeningHoursNode(day, opens, closes) ==
  Obj([x \in {"@type", "dayOfWeek", "opens", "closes"} |->
         CASE x = "@type" -> Str(<<"OpeningHoursSpecification">>)
           [] x = "dayOfWeek" -> Str(day)
           [] x = "opens" -> Str(opens)
           [] x = "closes" -> Str(closes)])

WeekDays == <<<<"Monday">>, <<"Tuesday">>, <<"Wednesday">>, <<"Thursday">>, <<"Friday">>>>

\* The nodes one line yields.
HoursOfLine(line) ==
  LET m == LineMatch(line)
      rm == LineRangeMatch(line)
      single == m.ok /\ isValidTimeFormat(Str(Trim(m.startTime))) /\ isValidTimeFormat(Str(Trim(m.endTime)))
      days == IF Includes(ToLower(Trim(rm.startDay)), <<"mon">>)
                 /\ Includes(ToLower(Trim(rm.endDay)), <<"fri">>)
              THEN WeekDays ELSE <<>>
  IN IF single
     THEN LET dayKey == ToLower(Trim(m.dayPart))
              normalizedDay == IF dayKey \in DOMAIN dayMapping THEN dayMapping[dayKey] ELSE Trim(m.dayPart)
          IN <<OpeningHoursNode(normalizedDay, Trim(m.startTime), Trim(m.endTime))>>
     ELSE IF rm.ok /\ isValidTimeFormat(Str(Trim(rm.startTime))) /\ isValidTimeFormat(Str(Trim(rm.endTime)))
     THEN [i \in 1..Len(days) |-> OpeningHoursNode(days[i], Trim(rm.startTime), Trim(rm.endTime))]
     ELSE <<>>

RECURSIVE FlatMapHours(_)
FlatMapHours(lines) ==
  IF lines = <<>> THEN <<>> ELSE HoursOfLine(Head(lines)) \o FlatMapHours(Tail(lines))

formatBusinessHours(hoursInput) ==
  IF ~Truthy(hoursInput) THEN Undef
  ELSE Arr(FlatMapHours(SelectSeq(Split(hoursInput.v, "\n"), NonBlank)))

---------------------------------------------------------------------------
(* Home: the form and the generateSchema handler *)

\* The form a fresh installation starts with.
InitialFormFields ==
     ("contentType" :> Str(<<"LocalBusiness">>))
  @@ ("name" :> Str(<<>>))
  @@ ("websiteUrl" :> Str(<<>>))
  @@ ("description" :> Str(<<>>))
  @@ ("pageTitle" :> Str(<<>>))
  @@ ("pageH1" :> Str(<<>>))
  @@ ("headline" :> Str(<<>>))
  @@ ("authorName" :> Str(<<>>))
  @@ ("authorType" :> Str(<<"Person">>))
  @@ ("publisherName" :> Str(<<>>))
  @@ ("publisherLogoUrl" :> Str(<<>>))
  @@ ("datePublished" :> Str(<<>>))
  @@ ("dateModified" :> Str(<<>>))
  @@ ("howToName" :> Str(<<>>))
  @@ ("howToDescription" :> Str(<<>>))
  @@ ("telephone" :> Str(<<>>))
  @@ ("email" :> Str(<<>>))
  @@ ("streetAddress" :> Str(<<>>))
  @@ ("addressLocality" :> Str(<<>>))
  @@ ("addressRegion" :> Str(<<>>))
  @@ ("postalCode" :> Str(<<>>))
  @@ ("addressCountry" :> Str(<<"US">>))
  @@ ("voiceSummary" :> Str(<<>>))
  @@ ("voiceKeywords" :> Str(<<"near", " ", "me", ",", " ", "best", ",", " ", "top", " ", "rated", ",", " ", "local", ",", " ", "professional">>))
  @@ ("faqQuestions" :> Str(<<"What", " ", "are", " ", "your", " ", "hours", "?", "\n", "Where", " ", "are", " ", "you", " ", "located", "?", "\n", "Do", " ", "you", " ", "offer", " ", "free", " ", "estimates", "?", "\n", "How", " ", "can", " ", "I", " ", "contact", " ", "you", "?", "\n", "What", " ", "services", " ", "do", " ", "you", " ", "provide", "?">>))
  @@ ("faqAnswers" :> Str(<<"We", " ", "are", " ", "open", " ", "Monday", "-", "Friday", " ", "9", "AM", "-", "5", "PM", "\n", "We", " ", "are", " ", "located", " ", "at", " ", "[", "Your", " ", "Address", "]", "\n", "Yes", ",", " ", "we", " ", "provide", " ", "free", " ", "estimates", "\n", "Call", " ", "us", " ", "at", " ", "[", "Phone", "]", " ", "or", " ", "email", " ", "[", "Email", "]", "\n", "We", " ", "offer", " ", "[", "list", " ", "your", " ", "services", "]">>))
  @@ ("serviceAreas" :> Str(<<>>))
  @@ ("ratingValue" :> Str(<<>>))
  @@ ("reviewCount" :> Str(<<>>))
  @@ ("latitude" :> Str(<<>>))
  @@ ("longitude" :> Str(<<>>))
  @@ ("googleMap" :> Str(<<>>))
  @@ ("servicesOffered" :> Str(<<>>))
  @@ ("businessHours" :> Str(<<>>))
  @@ ("priceRange" :> Str(<<>>))
  @@ ("alternativeNames" :> Str(<<>>))
  @@ ("foundingDate" :> Str(<<>>))
  @@ ("paymentMethods" :> Str(<<>>))
  @@ ("awards" :> Str(<<>>))
  @@ ("specialOffers" :> Str(<<>>))

InitialForm == Obj(InitialFormFields)

\* An object literal: the keys and values of a function.
Lit2(a, x, b, y) == (a :> x) @@ (b :> y)

ImageObject(url) == Obj(Lit2("@type", Str(<<"ImageObject">>), "url", url))

NamedImageObject(url, name) ==
  Obj(Lit2("@type", Str(<<"ImageObject">>), "url", url) @@ ("name" :> name))

\* s.split(sep).map(x => x.trim()) as an array of strings
SplitTrim(s, sep) ==
  LET parts == Split(s, sep) IN [i \in 1..Len(parts) |-> Str(Trim(parts[i]))]

\* s.split('\n').filter(x => x.trim())
Lines(s) == SelectSeq(Split(s, "\n"), NonBlank)

\* new Date().toISOString(): the time of the run.
NowIso == Str(<<"now">>)

\* JSON.stringify: undefined members are left out, undefined elements and
\* NaN are written as null.
RECURSIVE JsonValue(_)
JsonValue(x) ==
  CASE IsObj(x) -> Obj([key \in {y \in DOMAIN x.v : x.v[y] # Undef} |-> JsonValue(x.v[key])])
    [] IsArr(x) -> Arr([i \in 1..Len(x.v) |-> IF x.v[i] = Undef THEN Null ELSE JsonValue(x.v[i])])
    [] x.k = "NaN" -> Null
    [] OTHER -> x

\* `<script type="application/ld+json">\n${JSON.stringify(schema, null, 2)}\n</script>`
fullScript(schema) == [k |-> "script", v |-> JsonValue(schema)]

articleSchema(c, imgs) ==
  Obj(Lit2("@context", Str(<<"https", ":", "/", "/", "schema", ".", "org">>),
           "@type", Str(<<"Article">>))
      @@ ("headline" :> Get(c, "headline"))
      @@ ("author" :> Obj(Lit2("@type", OrElse(Get(c, "authorType"), Str(<<"Person">>)),
                               "name", Get(c, "authorName"))))
      @@ ("publisher" :> Obj(Lit2("@type", Str(<<"Organization">>), "name", Get(c, "publisherName"))
                             @@ ("logo" :> IF Truthy(Get(c, "publisherLogoUrl"))
                                           THEN ImageObject(Get(c, "publisherLogoUrl")) ELSE Undef)))
      @@ ("datePublished" :> OrElse(Get(c, "datePublished"), NowIso))
      @@ ("dateModified" :> OrElse(OrElse(Get(c, "dateModified"), Get(c, "datePublished")), NowIso))
      @@ ("image" :> IF Len(imgs) > 0 THEN Arr([i \in 1..Len(imgs) |-> ImageObject(imgs[i])]) ELSE Undef)
      @@ ("description" :> OrElse(Get(c, "voiceSummary"), Get(c, "howToDescription")))
      @@ ("keywords" :> Get(c, "voiceKeywords")))

howToSchema(c, imgs, steps) ==
  Obj(Lit2("@context", Str(<<"https", ":", "/", "/", "schema", ".", "org", "/">>),
           "@type", Str(<<"HowTo">>))
      @@ ("name" :> Get(c, "howToName"))
      @@ ("description" :> Get(c, "howToDescription"))
      @@ ("image" :> IF Len(imgs) > 0 THEN Arr([i \in 1..Len(imgs) |-> ImageObject(imgs[i])]) ELSE Undef)
      @@ ("step" :> Arr([i \in 1..Len(steps) |->
                           Obj(Lit2("@type", Str(<<"HowToStep">>), "position", Lit(i))
                               @@ ("text" :> steps[i]))])))

baseSchema(c, imgs) ==
  LET title == OrElse(Get(c, "pageTitle"), Get(c, "name"))
  IN Lit2("@context", Str(<<"https", ":", "/", "/", "schema", ".", "org">>), "@type", Str(<<"WebPage">>))
     @@ ("url" :> Get(c, "websiteUrl"))
     @@ ("name" :> title)
     @@ ("headline" :> OrElse(Get(c, "pageH1"), title))
     @@ (IF Len(imgs) > 0
         THEN "image" :> Arr([i \in 1..Len(imgs) |-> NamedImageObject(imgs[i], title)])
         ELSE <<>>)

\* The FAQ page of the business node, when the form holds questions and answers.
faqEntity(c) ==
  LET questions == Lines(Get(c, "faqQuestions").v)
      answers == Lines(Get(c, "faqAnswers").v)
      stock == <<"Contact", " ", "us", " ", "at", " ">>
               \o ToStringPrim(OrElse(Get(c, "telephone"), Str(<<"our", " ", "phone", " ", "number">>)))
               \o <<" ", "for", " ", "more", " ", "information", ".">>
  IN [i \in 1..Len(questions) |->
        Obj(Lit2("@type", Str(<<"Question">>), "name", Str(Trim(questions[i])))
            @@ ("acceptedAnswer" :>
                  Obj(Lit2("@type", Str(<<"Answer">>),
                           "text", IF i <= Len(answers) /\ Trim(answers[i]) # <<>>
                                   THEN Str(Trim(answers[i])) ELSE Str(stock)))))]

\* One line of the business hours field: line.split(':'), then the first
\* two parts of parts[1].split('-').
hoursLine(line) ==
  LET parts == Split(line, ":")
      timeRange == Split(Trim(parts[2]), "-")
      opens == Trim(timeRange[1])
      closes == IF Len(timeRange) >= 2 THEN Trim(timeRange[2]) ELSE <<>>
  IN IF Len(parts) >= 2 /\ opens # <<>> /\ closes # <<>>
     THEN <<OpeningHoursNode(Trim(parts[1]), opens, closes)>>
     ELSE <<>>

RECURSIVE hoursLines(_)
hoursLines(lines) ==
  IF lines = <<>> THEN <<>> ELSE hoursLine(Head(lines)) \o hoursLines(Tail(lines))

openingHours(c) ==
  IF Truthy(Get(c, "businessHours")) THEN Arr(hoursLines(Lines(Get(c, "businessHours").v))) ELSE Undef

\* The business node before cleaning.
mainEntity(c, contentType, imgs, socials) ==
  LET questions == IF Truthy(Get(c, "faqQuestions")) /\ Truthy(Get(c, "faqAnswers")) THEN faqEntity(c) ELSE <<>>
      services == Lines(Get(c, "servicesOffered").v)
      offers == Lines(Get(c, "specialOffers").v)
      areas == SplitTrim(Get(c, "serviceAreas").v, ",")
  IN Obj(Lit2("@type", contentType, "name", Get(c, "name"))
      @@ ("description" :> Get(c, "description"))
      @@ ("url" :> Get(c, "websiteUrl"))
      @@ ("telephone" :> Get(c, "telephone"))
      @@ ("address" :> Obj(Lit2("@type", Str(<<"PostalAddress">>), "streetAddress", Get(c, "streetAddress"))
                           @@ ("addressLocality" :> Get(c, "addressLocality"))
                           @@ ("addressRegion" :> Get(c, "addressRegion"))
                           @@ ("postalCode" :> Get(c, "postalCode"))
                           @@ ("addressCountry" :> OrElse(Get(c, "addressCountry"), Str(<<"US">>)))))
      @@ (IF Len(imgs) > 0
          THEN Lit2("logo", ImageObject(imgs[1]),
                    "image", Arr([i \in 1..Len(imgs) |-> NamedImageObject(imgs[i], Get(c, "name"))]))
          ELSE <<>>)
      @@ (IF Len(questions) > 0
          THEN "mainEntityOfPage" :> Obj(Lit2("@type", Str(<<"FAQPage">>), "mainEntity", Arr(questions)))
          ELSE <<>>)
      @@ ("email" :> Get(c, "email"))
      @@ ("priceRange" :> Get(c, "priceRange"))
      @@ ("paymentAccepted" :> IF Truthy(Get(c, "paymentMethods"))
                               THEN Arr(SplitTrim(Get(c, "paymentMethods").v, ",")) ELSE Undef)
      @@ ("foundingDate" :> Get(c, "foundingDate"))
      @@ ("alternateName" :> IF Truthy(Get(c, "alternativeNames"))
                             THEN Arr(SplitTrim(Get(c, "alternativeNames").v, ",")) ELSE Undef)
      @@ ("openingHoursSpecification" :> openingHours(c))
      @@ ("geo" :> IF Truthy(Get(c, "latitude")) /\ Truthy(Get(c, "longitude"))
                   THEN Obj(Lit2("@type", Str(<<"GeoCoordinates">>), "latitude", parseFloat(Get(c, "latitude")))
                            @@ ("longitude" :> parseFloat(Get(c, "longitude"))))
                   ELSE Undef)
      @@ ("hasMap" :> Get(c, "googleMap"))
      @@ ("aggregateRating" :> IF Truthy(Get(c, "ratingValue")) /\ Truthy(Get(c, "reviewCount"))
                               THEN Obj(Lit2("@type", Str(<<"AggregateRating">>),
                                             "ratingValue", parseFloat(Get(c, "ratingValue")))
                                        @@ ("reviewCount" :> parseInt(Get(c, "reviewCount")))
                                        @@ Lit2("bestRating", Str(<<"5">>), "worstRating", Str(<<"1">>)))
                               ELSE Undef)
      @@ ("areaServed" :> IF Truthy(Get(c, "serviceAreas"))
                          THEN Arr([i \in 1..Len(areas) |->
                                      Obj(Lit2("@type", Str(<<"Place">>), "name", areas[i]))])
                          ELSE Undef)
      @@ ("makesOffer" :> IF Truthy(Get(c, "servicesOffered"))
                          THEN Arr([i \in 1..Len(services) |->
                                      Obj(Lit2("@type", Str(<<"Offer">>), "itemOffered",
                                               Obj(Lit2("@type", Str(<<"Service">>),
                                                        "name", Str(Trim(services[i]))))))])
                          ELSE Undef)
      @@ ("hasOfferCatalog" :> IF Truthy(Get(c, "specialOffers"))
                               THEN Obj(Lit2("@type", Str(<<"OfferCatalog">>),
                                             "name", Str(<<"Special", " ", "Offers">>))
                                        @@ ("itemListElement" :>
                                              Arr([i \in 1..Len(offers) |->
                                                     Obj(Lit2("@type", Str(<<"Offer">>),
                                                              "name", Str(Trim(offers[i]))))])))
                               ELSE Undef)
      @@ ("award" :> IF Truthy(Get(c, "awards"))
                     THEN Arr([i \in 1..Len(Lines(Get(c, "awards").v)) |-> Str(Lines(Get(c, "awards").v)[i])])
                     ELSE Undef)
      @@ ("sameAs" :> IF Len(socials) > 0 THEN Arr(socials) ELSE Undef))

\* The page document around the cleaned business node.
finalSchema(c, imgs, cleanedMainEntity) ==
  Obj(baseSchema(c, imgs)
      @@ ("mainEntity" :> cleanedMainEntity)
      @@ ("keywords" :> Get(c, "voiceKeywords"))
      @@ ("description" :> OrElse(Get(c, "voiceSummary"), Get(c, "description"))))

\* What a generateSchema run did: the stages it went through in order (the
\* library calls, and "synthesis" where it built a document), how it ended, the
\* toast, the tab it switched to, the document it emitted and its history
\* name, the documents it handed to cleanObject and the one it handed to
\* validateSchema.
RunResult(calls, outcome, toast, description, tab, schema, name) ==
  [calls |-> calls, outcome |-> outcome, toast |-> toast, description |-> description,
   tab |-> tab, schema |-> schema, name |-> name, cleaned |-> <<>>, validated |-> Undef]

cleaning(run, docs) == [run EXCEPT !.cleaned = docs]

validating(run, doc) == [run EXCEPT !.validated = doc]

Success == "Enhanced Schema Generated!"

\* The end of an article or how-to run: a document that fails validateSchema
\* is not emitted.
checkedRun(cleanedSchema, schemaValidation) ==
  IF ~schemaValidation.isValid
  THEN RunResult(<<"validateFormData", "synthesis", "cleanObject", "validateSchema">>, "invalid schema",
                 "Schema Validation Error", schemaValidation.errors, "", Undef, Undef)
  ELSE RunResult(<<"validateFormData", "synthesis", "cleanObject", "validateSchema">>, "emitted",
                 Success, <<>>, "", cleanedSchema, Undef)

validatedRun(cleanedSchema) ==
  validating(checkedRun(cleanedSchema, validateSchema(cleanedSchema)), cleanedSchema)

\* The run from the synthesized article or how-to document on.
documentRun(doc) == cleaning(validatedRun(cleanObject(doc)), <<doc>>)

articleRun(c, imgs) == documentRun(articleSchema(c, imgs))

howToRun(c, imgs, steps) ==
  IF Len(steps) = 0
  THEN RunResult(<<"validateFormData">>, "no steps", "Missing Information", <<>>, "basic", Undef, Undef)
  ELSE documentRun(howToSchema(c, imgs, steps))

\* A business run that goes back to cleanObject after validateSchema.
warnedRunRetrying(cleanedFinalSchema) ==
  validating(RunResult(<<"validateFormData", "synthesis", "cleanObject", "synthesis", "cleanObject",
                         "validateSchema", "cleanObject", "validateSchema">>,
                       "emitted", Success, validateSchema(cleanedFinalSchema).errors, "",
                       cleanedFinalSchema, Undef),
             cleanedFinalSchema)

\* The end of a business run: validateSchema only warns. The business node
\* was synthesized and cleaned, then the page was put together around the
\* cleaned node and cleaned.
warnedRun(cleanedFinalSchema) ==
  validating(RunResult(<<"validateFormData", "synthesis", "cleanObject", "synthesis", "cleanObject",
                         "validateSchema">>,
                       "emitted", Success, validateSchema(cleanedFinalSchema).errors, "",
                       cleanedFinalSchema, Undef),
             cleanedFinalSchema)

\* The run from the page document around the cleaned business node on.
pageRun(entity, page) == cleaning(warnedRun(cleanObject(page)), <<entity, page>>)

\* The run from the synthesized business node on.
entityRun(c, imgs, entity) == pageRun(entity, finalSchema(c, imgs, cleanObject(entity)))

\* !isAiGenerated && (!streetAddress || !addressLocality || !addressRegion)
addressNeeded(c, isAi) ==
  /\ ~isAi
  /\ \/ ~Truthy(Get(c, "streetAddress"))
     \/ ~Truthy(Get(c, "addressLocality"))
     \/ ~Truthy(Get(c, "addressRegion"))

businessRun(c, contentType, isAi, imgs, socials) ==
  IF addressNeeded(c, isAi)
  THEN RunResult(<<"validateFormData">>, "no address", "Missing Address Information", <<>>, "local", Undef, Undef)
  ELSE entityRun(c, imgs, mainEntity(c, contentType, imgs, socials))

\* cleanedFormData.name || cleanedFormData.headline || cleanedFormData.howToName || 'Untitled Schema'
historyName(c) ==
  OrElse(Get(c, "name"),
    OrElse(Get(c, "headline"),
      OrElse(Get(c, "howToName"), Str(<<"Untitled", " ", "Schema">>))))

named(run, name) == [run EXCEPT !.name = name]

\* The part of generateSchema after the form was accepted.
synthesize(c, contentType, isAi, imgs, socials, steps) ==
  named(IF contentType = Str(<<"Article">>) THEN articleRun(c, imgs)
        ELSE IF contentType = Str(<<"HowTo">>) THEN howToRun(c, imgs, steps)
        ELSE businessRun(c, contentType, isAi, imgs, socials),
        historyName(c))

\* A run that goes on with the cleaned data whatever the validation said.
uncheckedRun(validation, contentType, isAi, imgs, socials, steps) ==
  synthesize(validation.cleanedData, contentType, isAi, imgs, socials, steps)

\* The run once the form was validated: a rejected form ends it.
validationRun(validation, contentType, isAi, imgs, socials, steps) ==
  IF ~validation.isValid
  THEN RunResult(<<"validateFormData">>, "rejected", "Validation Error", validation.errors,
                 "basic", Undef, Undef)
  ELSE synthesize(validation.cleanedData, contentType, isAi, imgs, socials, steps)

generateRun(fd, isAi, imgs, socials, steps) ==
  validationRun(validateFormData(fd, isAi), OrElse(Get(fd, "contentType"), Str(<<"LocalBusiness">>)),
                isAi, imgs, socials, steps)

RECURSIVE EachPatterns(_, _)

\* The shared patterns after cleanObject was called on each document in turn.
EachPatterns(patterns, docs) ==
  IF docs = <<>> THEN patterns
  ELSE EachPatterns(cleanPatterns(patterns, Head(docs)), Tail(docs))

\* The shared patterns after a generateSchema run: validateFormData comes
\* first, then the cleanObject calls, then validateSchema.
runPatterns(patterns, fd, run) ==
  schemaPatterns(EachPatterns(validatePatterns(patterns, fd), run.cleaned), run.validated)

\* [newHistoryItem, ...prev].slice(0, 10)
HistoryCap == 10

pushHistory(item, prev) == SubSeq(<<item>> \o prev, 1, Min({HistoryCap, Len(prev) + 1}))

HistoryItem(id, name, schema) == [id |-> id, name |-> name, schema |-> schema]

NoRun == [handler |-> "", calls |-> <<>>, outcome |-> "", toast |-> "", description |-> <<>>]

---------------------------------------------------------------------------
(* Home: the handlers *)

MaxEdits == 2
MaxRuns == 2
MaxSteps == 1

Url(host) == Str(<<"https", ":", "/", "/", host, ".", "com">>)

\* The values typed into the fields of the form.
FieldEdits ==
  { <<"name", Str(<<"Acme">>)>>, <<"name", Str(<<>>)>>,
    <<"description", Str(<<"Luxury", " ", "HVAC">>)>>,
    <<"streetAddress", Str(<<"1", " ", "Main", " ", "St">>)>>,
    <<"addressLocality", Str(<<"Austin">>)>>,
    <<"addressRegion", Str(<<"TX">>)>>,
    <<"email", Str(<<"bad">>)>>,
    <<"howToName", Str(<<"Repair">>)>> }

ContentTypeChoices == {Str(<<"LocalBusiness">>), Str(<<"HVACBusiness">>), Str(<<"Article">>), Str(<<"HowTo">>)}

NewSteps == {<<>>, <<" ", "Open", " ">>}

\* Documents the AI flow hands over: a page around a complete business, a
\* bare business with a partial address, and a text without the envelope.
AiBusiness ==
  Obj(Lit2("@type", Str(<<"LocalBusiness">>), "name", Str(<<"Acme">>))
      @@ ("description" :> Str(<<"Affordable", " ", "HVAC">>))
      @@ ("url" :> Url("acme"))
      @@ ("address" :> Obj(Lit2("@type", Str(<<"PostalAddress">>),
                                "streetAddress", Str(<<"1", " ", "Main", " ", "St">>))
                           @@ Lit2("addressLocality", Str(<<"Austin">>), "addressRegion", Str(<<"TX">>))))
      @@ ("geo" :> Obj(Lit2("latitude", Num(303), "longitude", Num(-977))))
      @@ ("aggregateRating" :> Obj(Lit2("ratingValue", Num(45), "reviewCount", Lit(12))))
      @@ ("image" :> Arr(<<Url("img"), ImageObject(Url("logo")), Obj(<<>>)>>))
      @@ ("sameAs" :> Arr(<<Url("social")>>)))

AiPage ==
  Obj(Lit2("@context", Str(<<"https", ":", "/", "/", "schema", ".", "org">>), "@type", Str(<<"WebPage">>))
      @@ ("mainEntity" :> AiBusiness))

AiPartial ==
  Obj(Lit2("@context", Str(<<"https", ":", "/", "/", "schema", ".", "org">>), "@type", Str(<<"LocalBusiness">>))
      @@ Lit2("name", Str(<<"Acme">>), "description", Str(<<"HVAC">>))
      @@ ("email" :> Str(<<"bad">>))
      @@ ("logo" :> ImageObject(Url("logo")))
      @@ ("address" :> Obj(Lit2("@type", Str(<<"PostalAddress">>), "addressRegion", Str(<<"TX">>)))))

AiSchemas == {fullScript(AiPage), fullScript(AiPartial), Str(<<"error">>)}

\* The name the AI flow hands over with each document: the name it found, or
\* none for the documents it built from a partial harvest.
AiName(schema) == IF schema = fullScript(AiPage) THEN Str(<<"Acme">>) ELSE Str(<<>>)

\* if (val) updateData.key = val
CopyIf(o, key, val) == IF Truthy(val) THEN Put(o, key, val) ELSE o

\* if (val) updateData.key = val.toString()
CopyStringIf(o, key, val) == IF Truthy(val) THEN Put(o, key, Str(ToStringPrim(val))) ELSE o

\* The form after the fields of the handed-over document were copied in.
updateBasics(fd, m) ==
  CopyIf(CopyIf(CopyIf(CopyIf(CopyIf(CopyIf(fd,
    "name", Get(m, "name")),
    "description", Get(m, "description")),
    "websiteUrl", Get(m, "url")),
    "telephone", Get(m, "telephone")),
    "email", Get(m, "email")),
    "priceRange", Get(m, "priceRange"))

updateAddress(fd, address) ==
  CopyIf(CopyIf(CopyIf(CopyIf(CopyIf(fd,
    "streetAddress", Get(address, "streetAddress")),
    "addressLocality", Get(address, "addressLocality")),
    "addressRegion", Get(address, "addressRegion")),
    "postalCode", Get(address, "postalCode")),
    "addressCountry", Get(address, "addressCountry"))

updateGeo(fd, geo) ==
  CopyStringIf(CopyStringIf(fd, "latitude", Get(geo, "latitude")), "longitude", Get(geo, "longitude"))

updateRating(fd, rating) ==
  CopyStringIf(CopyStringIf(fd, "ratingValue", Get(rating, "ratingValue")),
               "reviewCount", Get(rating, "reviewCount"))

updateData(fd, m) ==
  updateRating(updateGeo(updateAddress(updateBasics(fd, m), Get(m, "address")), Get(m, "geo")),
               Get(m, "aggregateRating"))

\* mainEntity.image.map(img => typeof img === 'string' ? img : img.url).filter(Boolean)
imageUrls(image) ==
  SelectSeq([i \in 1..Len(image) |-> IF IsStr(image[i]) THEN image[i] ELSE Get(image[i], "url")], Truthy)

\* A text change that leaves the validation mode as it was.
handleChangeKeepingMode ==
  \E e \in FieldEdits :
    /\ edits < MaxEdits
    /\ formData' = Put(formData, e[1], e[2])
    /\ edits' = edits + 1
    /\ UNCHANGED <<phase, input, output, generatedSchema, schemaHistory, activeTab, isAiGenerated,
                   images, socialProfiles, howToSteps, lastRun, lastIndex, runs>>

handleChange ==
  \E e \in FieldEdits :
    /\ edits < MaxEdits
    /\ formData' = Put(formData, e[1], e[2])
    /\ isAiGenerated' = FALSE
    /\ edits' = edits + 1
    /\ UNCHANGED <<phase, input, output, generatedSchema, schemaHistory, activeTab,
                   images, socialProfiles, howToSteps, lastRun, lastIndex, runs>>

handleSelectChange ==
  \E value \in ContentTypeChoices :
    /\ edits < MaxEdits
    /\ formData' = Put(formData, "contentType", value)
    /\ isAiGenerated' = FALSE
    /\ edits' = edits + 1
    /\ UNCHANGED <<phase, input, output, generatedSchema, schemaHistory, activeTab,
                   images, socialProfiles, howToSteps, lastRun, lastIndex, runs>>

addStep ==
  \E newStep \in NewSteps :
    /\ Len(howToSteps) < MaxSteps
    /\ howToSteps' = IF Trim(newStep) # <<>> THEN Append(howToSteps, Str(Trim(newStep))) ELSE howToSteps
    /\ UNCHANGED <<phase, input, output, formData, isAiGenerated, generatedSchema, schemaHistory,
                   activeTab, images, socialProfiles, lastRun, lastIndex, runs, edits>>

handleAiSchemaGenerated ==
  \E schema \in AiSchemas :
    /\ runs < MaxRuns
    /\ generatedSchema' = schema
    /\ isAiGenerated' = TRUE
    /\ IF schema.k = "script"
       THEN LET m == OrElse(Get(schema.v, "mainEntity"), schema.v)
            IN /\ formData' = updateData(formData, m)
               /\ socialProfiles' = IF IsArr(Get(m, "sameAs")) THEN Get(m, "sameAs").v ELSE socialProfiles
               /\ images' = IF IsArr(Get(m, "image")) THEN imageUrls(Get(m, "image").v)
                            ELSE IF IsObj(Get(m, "logo")) /\ Truthy(Get(Get(m, "logo"), "url"))
                            THEN <<Get(Get(m, "logo"), "url")>>
                            ELSE images
       ELSE UNCHANGED <<formData, socialProfiles, images>>
    /\ schemaHistory' = pushHistory(HistoryItem(runs + 1, OrElse(AiName(schema), Str(<<"AI", " ", "Generated", " ", "Schema">>)), schema),
                                    schemaHistory)
    /\ runs' = runs + 1
    /\ UNCHANGED <<phase, input, output, activeTab, howToSteps, lastRun, lastIndex, edits>>

\* The state changes of a generateSchema run. The history item holds the
\* generatedSchema the handler's closure captured, the one before this run.
finish(run) ==
  /\ lastIndex' = runPatterns(lastIndex, formData, run)
  /\ lastRun' = [handler |-> "generateSchema", calls |-> run.calls, outcome |-> run.outcome,
                 toast |-> run.toast, description |-> run.description]
  /\ activeTab' = IF run.tab = "" THEN activeTab ELSE run.tab
  /\ generatedSchema' = IF run.outcome = "emitted" THEN fullScript(run.schema) ELSE generatedSchema
  /\ schemaHistory' = IF run.outcome = "emitted"
                      THEN pushHistory(HistoryItem(runs + 1, run.name, generatedSchema), schemaHistory)
                      ELSE schemaHistory

generateSchema ==
  /\ runs < MaxRuns
  /\ finish(generateRun(formData, isAiGenerated, images, socialProfiles, howToSteps))
  /\ runs' = runs + 1
  /\ UNCHANGED <<phase, input, output, formData, isAiGenerated, images, socialProfiles,
                 howToSteps, edits>>

resetFields ==
  /\ edits < MaxEdits
  /\ formData' = InitialForm
  /\ socialProfiles' = <<>>
  /\ images' = <<>>
  /\ howToSteps' = <<>>
  /\ generatedSchema' = Str(<<>>)
  /\ isAiGenerated' = FALSE
  /\ edits' = edits + 1
  /\ UNCHANGED <<phase, input, output, schemaHistory, activeTab, lastRun, lastIndex, runs>>

Init ==
  /\ phase = "home"
  /\ input = Undef
  /\ output = <<>>
  /\ formData = InitialForm
  /\ isAiGenerated = FALSE
  /\ generatedSchema = Str(<<>>)
  /\ schemaHistory = <<>>
  /\ activeTab = "basic"
  /\ images = <<>>
  /\ socialProfiles = <<>>
  /\ howToSteps = <<>>
  /\ lastRun = NoRun
  /\ lastIndex = FreshPatterns
  /\ runs = 0
  /\ edits = 0

Next ==
  \/ handleChange
  \/ handleSelectChange
  \/ addStep
  \/ handleAiSchemaGenerated
  \/ generateSchema
  \/ resetFields

Spec == Init /\ [][Next]_vars

---------------------------------------------------------------------------
(* cleanObject applied to documents, and applied again to its own result *)

MaxPasses == 2

Absent == [k |-> "absent"]

\* An object of the given members, the absent ones left out.
Node(f) == Obj([key \in {x \in DOMAIN f : f[x] # Absent} |-> f[key]])

StreetVals == {Absent, Str(<<" ">>), Str(<<"1", " ", "Main", " ", "St">>)}
CityVals ==
  {Absent, Str(<<>>), Str(<<"Austin">>), Str(<<" ", "AUSTIN", " ">>), Str(<<"Springfield">>)}
RegionVals == {Absent, Str(<<"TX">>)}
PostalVals == {Absent, Str(<<"7", "8", "7", "0", "1">>), Str(<<"abc">>)}

AddressDocs ==
  { Node(Lit2("@type", Str(<<"PostalAddress">>), "streetAddress", street)
         @@ Lit2("addressLocality", city, "addressRegion", region)
         @@ ("postalCode" :> postal)) :
      street \in StreetVals, city \in CityVals, region \in RegionVals, postal \in PostalVals }

\* Every content type of the form, and Organization.
NodeTypes ==
  {"LocalBusiness", "Restaurant", "HVACBusiness", "ProfessionalService",
   "HomeAndConstructionBusiness", "MedicalBusiness", "LegalService", "AutomotiveBusiness",
   "Organization"}

NameVals == {Absent, Str(<<>>), Str(<<"Acme">>)}

BusinessAddressVals ==
  { Absent,
    Node(Lit2("@type", Str(<<"PostalAddress">>), "addressRegion", Str(<<"TX">>))),
    Node(Lit2("@type", Str(<<"PostalAddress">>), "streetAddress", Str(<<"1", " ", "Main", " ", "St">>))
         @@ Lit2("addressLocality", Str(<<"Austin">>), "addressRegion", Str(<<"TX">>))
         @@ ("postalCode" :> Str(<<"7", "8", "7", "0", "1">>))) }

PhoneVals == {Absent, Str(<<"5", "1", "2", "5", "5", "5", "0", "1", "0", "0">>)}

BusinessDocs ==
  { Node(Lit2("@type", Str(<<type>>), "name", name)
         @@ Lit2("address", address, "telephone", phone)) :
      type \in NodeTypes, name \in NameVals, address \in BusinessAddressVals, phone \in PhoneVals }

\* A number, a numeric string, a non-numeric string, a string with a numeric
\* prefix, or nothing.
RatingVals == {Absent, Num(45), Num(0), Num(60), Str(<<"4", ".", "5">>), Str(<<"abc">>), Str(<<"4", "abc">>)}
CountVals == {Absent, Lit(12), Lit(0), Num(25), Str(<<"1", "2">>), Str(<<"abc">>)}

RatingDocs ==
  { Node(Lit2("@type", Str(<<"AggregateRating">>), "ratingValue", rating) @@ ("reviewCount" :> count)) :
      rating \in RatingVals, count \in CountVals }

LatitudeVals ==
  {Absent, Num(0), Num(303), Num(900), Num(-900), Num(950), Str(<<"3", "0", ".", "3">>), Str(<<"abc">>)}
LongitudeVals ==
  {Absent, Num(0), Num(-977), Num(1800), Num(-1800), Num(1810), Str(<<"-", "9", "7", ".", "7">>), Str(<<"abc">>)}

GeoDocs ==
  { Node(Lit2("@type", Str(<<"GeoCoordinates">>), "latitude", lat) @@ ("longitude" :> lng)) :
      lat \in LatitudeVals, lng \in LongitudeVals }

TimeVals == {Absent, Str(<<"0", "9", ":", "0", "0">>), Str(<<"9", ":", "0", "0", " ", "AM">>)}

OtherDocs ==
  { Node(Lit2("@type", Str(<<"OpeningHoursSpecification">>), "dayOfWeek", Str(<<"Monday">>))
         @@ Lit2("opens", opens, "closes", Str(<<"1", "7", ":", "0", "0">>))) : opens \in TimeVals }
  \cup { Node(Lit2("@type", Str(<<"ImageObject">>), "url", url)) : url \in {Absent, Str(<<"acme", ".", "com">>)} }
  \cup { Node(Lit2("@type", Str(<<"Question">>), "name", name)) : name \in NameVals }

PageRatings ==
  {r \in RatingDocs : /\ Get(r, "ratingValue") \in {Num(45), Str(<<"abc">>)}
                      /\ Get(r, "reviewCount") \in {Lit(12), Str(<<"abc">>)}}

PageGeos ==
  {g \in GeoDocs : /\ Get(g, "latitude") \in {Num(303), Str(<<"abc">>)}
                   /\ Get(g, "longitude") = Num(-977)}

\* A page around a business that carries a rating, a position and images.
PageDocs ==
  { Node(Lit2("@type", Str(<<"WebPage">>), "url", Str(<<"acme", ".", "com">>))
         @@ ("mainEntity" :>
               Node(Lit2("@type", Str(<<type>>), "name", Str(<<"Acme">>))
                    @@ Lit2("aggregateRating", rating, "geo", geo)
                    @@ ("image" :> Arr(<<Node(Lit2("@type", Str(<<"ImageObject">>), "url", Absent)),
                                         Str(<<>>), Null>>))))) :
      type \in {"LocalBusiness", "HVACBusiness"}, rating \in PageRatings, geo \in PageGeos }

\* Business nodes with and without a price range, in a city of the price table.
PricedDocs ==
  { Node(Lit2("@type", Str(<<type>>), "name", name)
         @@ Lit2("description", description, "priceRange", price)
         @@ ("address" :> address)) :
      type \in {"LocalBusiness", "LegalService", "HVACBusiness"},
      name \in {Absent, Str(<<"Acme">>), Str(<<"Luxury", " ", "Acme">>)},
      description \in {Absent, Str(<<"affordable">>)},
      price \in {Absent} \cup {Str(Tier(n)) : n \in 1..4},
      address \in {Absent,
                   Node(Lit2("@type", Str(<<"PostalAddress">>), "streetAddress", Str(<<"1", " ", "Main", " ", "St">>))
                        @@ Lit2("addressLocality", Str(<<"Austin">>), "addressRegion", Str(<<"TX">>)))} }

\* What a list may hold: nothing, empty values, nodes a rule rejects, nodes
\* the pruning empties, and values that stay.
ListItems ==
  { Null, Undef, Str(<<>>), Arr(<<>>), Obj(<<>>),
    Obj(Lit2("url", Str(<<>>), "name", Null)),
    Node(Lit2("@type", Str(<<"ImageObject">>), "url", Absent)),
    Node(Lit2("@type", Str(<<"ImageObject">>), "url", Str(<<"acme", ".", "com">>))),
    Arr(<<Str(<<>>)>>),
    Str(<<"Acme">>) }

\* A typed node with a list of one or two items, and the bare list.
ListDocs ==
  LET lists == {<<first>> : first \in ListItems}
               \cup {<<first, second>> : first \in ListItems, second \in ListItems}
  IN {Arr(items) : items \in lists}
     \cup {Obj(Lit2("@type", Str(<<"Article">>), "image", Arr(items))) : items \in lists}

CleanDocs ==
  AddressDocs \cup BusinessDocs \cup RatingDocs \cup GeoDocs \cup OtherDocs \cup PageDocs \cup PricedDocs
  \cup ListDocs

\* The state of the form and the page while a library function is exercised.
HomeIdle ==
  /\ formData = InitialForm
  /\ isAiGenerated = FALSE
  /\ generatedSchema = Str(<<>>)
  /\ schemaHistory = <<>>
  /\ activeTab = "basic"
  /\ images = <<>>
  /\ socialProfiles = <<>>
  /\ howToSteps = <<>>
  /\ lastRun = NoRun
  /\ lastIndex = FreshPatterns
  /\ runs = 0
  /\ edits = 0

InitClean ==
  /\ phase = "cleanObject"
  /\ input \in CleanDocs
  /\ output = <<>>
  /\ HomeIdle

\* cleanObject(input)
Clean ==
  /\ phase = "cleanObject"
  /\ output = <<>>
  /\ output' = <<cleanObject(input)>>
  /\ lastIndex' = cleanPatterns(lastIndex, input)
  /\ UNCHANGED <<phase, input>>
  /\ UNCHANGED appVars

\* cleanObject applied to the result of the pass before
CleanAgain ==
  /\ phase = "cleanObject"
  /\ output # <<>>
  /\ Len(output) < MaxPasses
  /\ output' = Append(output, cleanObject(output[Len(output)]))
  /\ lastIndex' = cleanPatterns(lastIndex, output[Len(output)])
  /\ UNCHANGED <<phase, input>>
  /\ UNCHANGED appVars

NextClean == Clean \/ CleanAgain

SpecClean == InitClean /\ [][NextClean]_vars

---------------------------------------------------------------------------
(* detectPriceRange applied to its arguments *)

PriceCities ==
  {Undef, Str(<<>>), Str(<<"New", " ", "York">>), Str(<<" ", "Detroit", " ">>),
   Str(<<"Austin">>), Str(<<"Springfield">>)}

PriceTypes == {Str(<<"LocalBusiness">>), Str(<<"LegalService">>), Str(<<"AutomotiveBusiness">>),
               Str(<<"Article">>)}

PriceNames == {Undef, Str(<<"Acme">>), Str(<<"Luxury", " ", "Acme">>)}

PriceDescriptions ==
  {Undef, Str(<<"HVAC">>), Str(<<"affordable">>), Str(<<"upscale">>), Str(<<"great", " ", "value">>),
   Str(<<"premium", " ", "and", " ", "budget">>), Str(<<"unreasonable">>)}

InitPrice ==
  /\ phase = "detectPriceRange"
  /\ input \in [city : PriceCities, businessType : PriceTypes,
                businessName : PriceNames, description : PriceDescriptions]
  /\ output = <<>>
  /\ HomeIdle

Detect ==
  /\ phase = "detectPriceRange"
  /\ output = <<>>
  /\ output' = <<detectPriceRange(input.city, input.businessType, input.businessName, input.description)>>
  /\ UNCHANGED <<phase, input, lastIndex>>
  /\ UNCHANGED appVars

SpecPrice == InitPrice /\ [][Detect]_vars

---------------------------------------------------------------------------
(* validateFormData applied to forms *)

FormTypes == {Str(<<"LocalBusiness">>), Str(<<"HVACBusiness">>), Str(<<"Article">>), Str(<<"HowTo">>)}

\* The required texts of every content type, all typed in or all left empty.
Titled(fd, text) ==
  [key \in DOMAIN fd |->
     IF key \in {"name", "description", "headline", "authorName", "publisherName", "howToName"}
     THEN text ELSE fd[key]]

OneOf(flag, text) == IF flag THEN text ELSE Str(<<>>)

\* Price ranges as typed: the four tiers, longer runs of dollar signs, words.
PriceTexts ==
  {Str(Tier(n)) : n \in 1..5}
  \cup {Str(<<" ">>), Str(<<"cheap">>), Str(<<"about", " ">> \o Tier(6) \o <<" ">>), Str(<<"free">>)}

\* One more field typed in: a value its check refuses, or one it accepts.
Deviations ==
  { <<"email", Str(<<"bad">>)>>, <<"email", Str(<<"a", "@", "acme", ".", "com">>)>>,
    <<"websiteUrl", Str(<<"not", " ", "a", " ", "url">>)>>, <<"websiteUrl", Url("acme")>>,
    <<"publisherLogoUrl", Str(<<"not", " ", "a", " ", "url">>)>>, <<"publisherLogoUrl", Url("logo")>>,
    <<"latitude", Str(<<"abc">>)>>, <<"latitude", Str(<<"9", "5">>)>>,
    <<"latitude", Str(<<"3", "0", ".", "3">>)>>,
    <<"longitude", Str(<<"abc">>)>>, <<"longitude", Str(<<"-", "1", "8", "1">>)>>,
    <<"longitude", Str(<<"-", "9", "7", ".", "7">>)>>,
    <<"ratingValue", Str(<<"abc">>)>>, <<"ratingValue", Str(<<"6">>)>>,
    <<"ratingValue", Str(<<"4", ".", "5">>)>>,
    <<"reviewCount", Str(<<"abc">>)>>, <<"reviewCount", Str(<<"0">>)>>,
    <<"reviewCount", Str(<<"1", "2">>)>>,
    <<"postalCode", Str(<<"abc">>)>>, <<"postalCode", Str(<<"7", "8", "7", "0", "1">>)>>,
    <<"voiceSummary", Str(<<"HVAC">>)>> }
  \cup {<<"priceRange", price>> : price \in PriceTexts}

Forms ==
  { Put(Obj(("contentType" :> type)
            @@ ("streetAddress" :> OneOf(street, Str(<<"1", " ", "Main", " ", "St">>)))
            @@ ("addressLocality" :> OneOf(city, Str(<<"Austin">>)))
            @@ ("addressRegion" :> OneOf(region, Str(<<"TX">>)))
            @@ Titled(InitialFormFields, OneOf(titled, Str(<<"Acme">>)))),
        dev[1], dev[2]) :
      type \in FormTypes, titled \in BOOLEAN, street \in BOOLEAN, city \in BOOLEAN,
      region \in BOOLEAN, dev \in Deviations }

InitValidate ==
  /\ phase = "validateFormData"
  /\ input \in [form : Forms, isAi : BOOLEAN]
  /\ output = <<>>
  /\ HomeIdle

Validate ==
  /\ phase = "validateFormData"
  /\ output = <<>>
  /\ output' = <<validateFormData(input.form, input.isAi)>>
  /\ lastIndex' = validatePatterns(lastIndex, input.form)
  /\ UNCHANGED <<phase, input>>
  /\ UNCHANGED appVars

SpecValidate == InitValidate /\ [][Validate]_vars

---------------------------------------------------------------------------
(* cleanObject and validateFormData, each applied to its inputs *)

InitLibrary == InitClean \/ InitValidate

NextLibrary == NextClean \/ Validate

SpecLibrary == InitLibrary /\ [][NextLibrary]_vars

---------------------------------------------------------------------------
(* formatBusinessHours applied to texts of one or two lines *)

T0900 == <<"0", "9", ":", "0", "0">>
T1700 == <<"1", "7", ":", "0", "0">>
T9AM == <<"9", ":", "0", "0", " ", "AM">>
T5PM == <<"5", ":", "0", "0", " ", "PM">>

MondayFridayAmPm == <<"Monday", "-", "Friday", ":", " ">> \o T9AM \o <<"-">> \o T5PM

HoursLines ==
  { MondayFridayAmPm,
    <<"Monday", "-", "Friday", ":", " ">> \o T0900 \o <<"-">> \o T1700,
    <<"Hours", ":", " ", "Monday", "-", "Friday", ":", " ">> \o T0900 \o <<"-">> \o T1700,
    <<"Monday", ":", " ">> \o T0900 \o <<"-">> \o T1700,
    <<"Sat", ":", " ", "9", ":", "0", "0", "-">> \o T1700 \o <<" ">>,
    <<"Monday", "-", "Friday", ":", " ", "9", "AM", "-", "5", "PM">>,
    <<"Sunday", ":", " ", "Closed">>,
    <<"Closed">>,
    <<" ">> }

HoursTexts ==
  {Undef, Str(<<>>)}
  \cup {Str(line) : line \in HoursLines}
  \cup {Str(first \o <<"\n">> \o second) : first \in HoursLines, second \in HoursLines}

InitHours ==
  /\ phase = "formatBusinessHours"
  /\ input \in HoursTexts
  /\ output = <<>>
  /\ HomeIdle

Format ==
  /\ phase = "formatBusinessHours"
  /\ output = <<>>
  /\ output' = <<formatBusinessHours(input)>>
  /\ UNCHANGED <<phase, input, lastIndex>>
  /\ UNCHANGED appVars

SpecHours == InitHours /\ [][Format]_vars

---------------------------------------------------------------------------
(* formatPhoneNumber of utils.ts and of scraper.ts applied to phone strings *)

AreaCodes == {<<"5", "1", "2">>, <<"1", "4", "4">>, <<"0", "2", "0">>, <<"4", "4", "2">>}

Exchanges == {<<"5", "5", "5">>, <<"1", "0", "0">>}

LineNumbers == {<<"0", "1", "0", "0">>, <<"5", "3", "0", "9">>}

PhoneLayout(layout, a, e, l) ==
  CASE layout = "plain" -> a \o e \o l
    [] layout = "dashes" -> a \o <<"-">> \o e \o <<"-">> \o l
    [] layout = "parens" -> <<"(">> \o a \o <<")", " ">> \o e \o <<"-">> \o l
    [] layout = "dots" -> <<" ">> \o a \o <<".">> \o e \o <<".">> \o l \o <<" ">>
    [] layout = "one" -> <<"1">> \o a \o e \o l
    [] layout = "plusOne" -> <<"+", "1", " ">> \o a \o <<" ">> \o e \o <<" ">> \o l
    [] layout = "canonical" -> <<"+", "1", "-">> \o a \o <<"-">> \o e \o <<"-">> \o l
    [] layout = "two" -> <<"2">> \o a \o e \o l
    [] layout = "ext" -> a \o <<"-">> \o e \o <<"-">> \o l \o <<" ", "x", "7">>
    [] layout = "short" -> e \o <<"-">> \o l

PhoneLayouts ==
  {"plain", "dashes", "parens", "dots", "one", "plusOne", "canonical", "two", "ext", "short"}

PhoneTexts ==
  {Str(<<>>), Str(<<"c", "a", "l", "l">>)}
  \cup {Str(PhoneLayout(layout, a, e, l)) :
          layout \in PhoneLayouts, a \in AreaCodes, e \in Exchanges, l \in LineNumbers}

PhoneFormatters == {"utils", "scraper"}

formatWith(formatter, phone) ==
  IF formatter = "utils" THEN formatPhoneNumber(phone) ELSE scraperFormatPhoneNumber(phone)

InitPhone ==
  /\ phase = "formatPhoneNumber"
  /\ input \in [formatter : PhoneFormatters, phone : PhoneTexts]
  /\ output = <<>>
  /\ HomeIdle

FormatPhone ==
  /\ phase = "formatPhoneNumber"
  /\ output = <<>>
  /\ output' = <<formatWith(input.formatter, input.phone)>>
  /\ UNCHANGED <<phase, input, lastIndex>>
  /\ UNCHANGED appVars

FormatPhoneAgain ==
  /\ phase = "formatPhoneNumber"
  /\ Len(output) = 1
  /\ output' = Append(output, formatWith(input.formatter, output[1]))
  /\ UNCHANGED <<phase, input, lastIndex>>
  /\ UNCHANGED appVars

NextPhone == FormatPhone \/ FormatPhoneAgain

SpecPhone == InitPhone /\ [][NextPhone]_vars

---------------------------------------------------------------------------
(* The postal code functions called one after the other on the shared patterns *)

Digits78701 == <<"7", "8", "7", "0", "1">>

PostalTexts ==
  {Undef, Str(<<>>), Str(Digits78701), Str(Digits78701 \o <<"-", "1", "2", "3", "4">>),
   Str(<<"Austin", " ">> \o Digits78701), Str(Digits78701 \o <<"0">>),
   Str(<<"PO", " ", "Box", " ", "2", "0", "0", "0", " ">> \o Digits78701),
   Str(<<"abc">>), Str(<<"2", "0", "0", "0">>),
   Str(<<"K", "1", "A", " ", "0", "B", "1">>), Str(<<"SW", "1", "A", " ", "1", "AA">>)}

\* The country argument: left out, registered, or unknown.
PostalCountries == {Undef, Str(<<"US">>), Str(<<"CA">>), Str(<<"UK">>), Str(<<"AU">>), Str(<<"XX">>)}

PostalNodes ==
  {Node(("@type" :> Str(<<"PostalAddress">>)) @@ Lit2("streetAddress", street, "postalCode", code)) :
     street \in {Absent, Str(<<"1", " ", "Main", " ", "St", " ">> \o Digits78701)},
     code \in {Absent, Str(Digits78701), Str(<<"Austin", " ">> \o Digits78701), Str(<<"abc">>)}}

PostalForms ==
  {Put(Put(InitialForm, "contentType", type), "postalCode", code) :
     type \in {Str(<<"LocalBusiness">>), Str(<<"Article">>)},
     code \in {Str(<<>>), Str(Digits78701), Str(<<"Austin", " ">> \o Digits78701), Str(<<"abc">>)}}

\* The first two steps of the PostalAddress rule as calls on the shared
\* patterns: the postal code the node is left with.
restCall(patterns, code, test) == PatternCall(IF test.result THEN code ELSE Undef, test.lastIndex)

validateCall(call, country) ==
  IF Truthy(call.result) THEN restCall(call.lastIndex, call.result, testPostalCode(call.lastIndex, call.result, country))
  ELSE call

addressCall(patterns, o) ==
  validateCall(IF ~Truthy(Get(o, "postalCode"))
                  /\ (Truthy(Get(o, "streetAddress")) \/ Truthy(Get(o, "addressLocality")))
               THEN matchPostalCode(patterns,
                                    Str(Trim(Text(Get(o, "streetAddress")) \o <<" ">>
                                             \o Text(Get(o, "addressLocality")) \o <<" ">>
                                             \o Text(Get(o, "addressRegion")))),
                                    AddressCountry(o))
               ELSE PatternCall(Get(o, "postalCode"), patterns),
               AddressCountry(o))

refused(test) == PatternCall(~test.result, test.lastIndex)

\* The postal code check of validateFormData as a call on the shared
\* patterns: whether the postal code of the form is refused.
formCall(patterns, fd) ==
  IF IsBusinessForm(fd) /\ TrimTruthy(Get(fd, "postalCode"))
  THEN refused(testPostalCode(patterns, Get(fd, "postalCode"),
                              CountryOf(OrElse(Get(fd, "addressCountry"), Str(<<"US">>)))))
  ELSE PatternCall(FALSE, patterns)

InitPatterns ==
  /\ phase = "postalCode"
  /\ input = Undef
  /\ output = <<>>
  /\ HomeIdle

\* The call made: its arguments, the patterns it found, and its result.
Called(fn, args, call) ==
  /\ input' = [fn |-> fn, args |-> args, found |-> lastIndex]
  /\ output' = <<call.result>>
  /\ lastIndex' = call.lastIndex
  /\ UNCHANGED phase
  /\ UNCHANGED appVars

CallIsValid ==
  \E text \in PostalTexts, country \in PostalCountries :
    /\ phase = "postalCode"
    /\ Called("isValidPostalCode", <<text, country>>, testPostalCode(lastIndex, text, CountryOf(country)))

CallExtract ==
  \E text \in PostalTexts, country \in PostalCountries :
    /\ phase = "postalCode"
    /\ Called("extractPostalCode", <<text, country>>, matchPostalCode(lastIndex, text, CountryOf(country)))

CallClean ==
  \E o \in PostalNodes :
    /\ phase = "postalCode"
    /\ Called("cleanObject", <<o>>, addressCall(lastIndex, o))

CallValidate ==
  \E fd \in PostalForms :
    /\ phase = "postalCode"
    /\ Called("validateFormData", <<fd>>, formCall(lastIndex, fd))

NextPatterns == CallIsValid \/ CallExtract \/ CallClean \/ CallValidate

SpecPatterns == InitPatterns /\ [][NextPatterns]_vars

---------------------------------------------------------------------------
(* Home: generateSchema on a business form the user has filled in *)

T1000 == <<"1", "0", ":", "0", "0">>
T1800 == <<"1", "8", ":", "0", "0">>

HoursTyped ==
  { <<>>,
    <<"Monday", ":", " ">> \o T0900 \o <<"-">> \o T1700,
    <<"Monday", ":", " ">> \o T0900 \o <<"-">> \o T1700 \o <<"\n">>
      \o <<"Tuesday", ":", " ">> \o T1000 \o <<"-">> \o T1800,
    <<"Monday", ":", " ", "9", "-", "5">>,
    <<"Monday", " ">> \o T0900 \o <<"-">> \o T1700,
    <<"Sunday", ":", " ", "Closed">>,
    <<"Monday", "-", "Friday", ":", " ">> \o T0900 \o <<"-">> \o T1700 }

ManualForms ==
  { Obj(Lit2("contentType", type, "businessHours", Str(hours))
        @@ Lit2("postalCode", postal, "telephone", phone)
        @@ Lit2("name", Str(<<"Acme">>), "description", Str(<<"HVAC">>))
        @@ Lit2("streetAddress", Str(<<"1", " ", "Main", " ", "St">>), "addressLocality", Str(<<"Austin">>))
        @@ ("addressRegion" :> Str(<<"TX">>))
        @@ InitialFormFields) :
      type \in {Str(<<"LocalBusiness">>), Str(<<"Restaurant">>)},
      hours \in HoursTyped,
      postal \in {Str(<<>>), Str(Digits78701)},
      phone \in {Str(<<>>), Str(<<"5", "1", "2", "5", "5", "5", "0", "1", "0", "0">>)} }

InitManual ==
  /\ phase = "home"
  /\ input = Undef
  /\ output = <<>>
  /\ formData \in ManualForms
  /\ isAiGenerated = FALSE
  /\ generatedSchema = Str(<<>>)
  /\ schemaHistory = <<>>
  /\ activeTab = "basic"
  /\ images = <<>>
  /\ socialProfiles = <<>>
  /\ howToSteps = <<>>
  /\ lastRun = NoRun
  /\ lastIndex = FreshPatterns
  /\ runs = 0
  /\ edits = 0

SpecManual == InitManual /\ [][generateSchema]_vars

---------------------------------------------------------------------------
(* URL-based generation: scrapePageContent and its caller fetchPageContent *)

\* The proxies of scraper.ts; the file holds two revisions of the scraper.
CORS_PROXIES(revision) ==
  IF revision = "first"
  THEN <<"api.allorigins.win", "corsproxy.io", "cors-anywhere.herokuapp.com">>
  ELSE <<"api.allorigins.win", "thingproxy.freeboard.io", "cors-anywhere.herokuapp.com",
         "proxy.cors.sh", "corsproxy.org", "cors.eu.org", "crossorigin.me", "yacdn.org">>

HttpScheme == <<"https", ":", "/", "/">>

\* Where the host of a URL ends.
HostEnd(s) ==
  LET stops == {i \in (Len(HttpScheme) + 1)..Len(s) : s[i] \in {"/", "?", "#"}}
  IN IF stops = {} THEN Len(s) + 1 ELSE Min(stops)

\* new URL(url) succeeds
UrlParses(url) ==
  /\ StartsWith(url.v, HttpScheme)
  /\ HostEnd(url.v) > Len(HttpScheme) + 1
  /\ \A i \in 1..Len(url.v) : ~IsSpace(url.v[i])

\* urlObj.hostname : lower-cased by the URL parser
Hostname(url) == ToLower(SubSeq(url.v, Len(HttpScheme) + 1, HostEnd(url.v) - 1))

\* urlObj.pathname
Pathname(url) ==
  LET rest == SubSeq(url.v, HostEnd(url.v), Len(url.v))
      stops == {i \in 1..Len(rest) : rest[i] \in {"?", "#"}}
      path == IF stops = {} THEN rest ELSE SubSeq(rest, 1, Min(stops) - 1)
  IN IF path = <<>> THEN <<"/">> ELSE path

\* hostname.replace(/^www\./, '')
WithoutWww(host) == IF StartsWith(host, <<"www", ".">>) THEN SliceFrom(host, 2) ELSE host

\* The upper-cased first letter of a word of the vocabulary.
CapTok(t) ==
  CASE t = "acme" -> "Acme"
    [] t = "hvac" -> "Hvac"
    [] t = "austin" -> "Austin"
    [] t = "services" -> "Services"
    [] t = "joes" -> "Joes"
    [] t = "diner" -> "Diner"
    [] t = "menu" -> "Menu"
    [] t = "smith" -> "Smith"
    [] t = "law" -> "Law"
    [] t = "tx" -> "Tx"
    [] t = "restaurant" -> "Restaurant"
    [] t = "medical" -> "Medical"
    [] t = "legal" -> "Legal"
    [] t = "construction" -> "Construction"
    [] t = "automotive" -> "Automotive"
    [] t = "professional" -> "Professional"
    [] OTHER -> t

\* s.replace(/\b\w/g, l => l.toUpperCase())
CapWords(s) == [i \in 1..Len(s) |-> CapTok(s[i])]

\* domainParts[0].replace(/[-_]/g, ' ') with its words capitalised
DomainName(host) ==
  LET first == Split(WithoutWww(host), ".")[1]
  IN CapWords([i \in 1..Len(first) |-> IF first[i] \in {"-", "_"} THEN " " ELSE first[i]])

\* The number of characters of a token: letters, digits and marks are one
\* character, the words below two, every other word three or more.
TwoLetterWords == {"tx", "TX", "St", "st", "AM", "PM", "am", "pm", "US", "us"}

CharLen(t) ==
  IF t \in DigitTok \cup PunctTok \cup SpaceTok \cup LetterTok THEN 1
  ELSE IF t \in TwoLetterWords THEN 2 ELSE 3

RECURSIVE TextLen(_)
TextLen(s) == IF s = <<>> THEN 0 ELSE CharLen(Head(s)) + TextLen(Tail(s))

\* /^[a-zA-Z]+$/
IsLetters(s) == s # <<>> /\ \A i \in 1..Len(s) : IsWordTok(s[i]) /\ ~IsDigit(s[i]) /\ s[i] # "_"

\* pathname.split('/').filter(seg => seg.length > 0)
PathSegments(url) == SelectSeq(Split(Pathname(url), "/"), LAMBDA seg : seg # <<>>)

\* The first path segment that looks like a city, capitalised; '' when none does.
PathLocation(url) ==
  LET segments == PathSegments(url)
      found == {i \in 1..Len(segments) :
                  /\ TextLen(segments[i]) > 2
                  /\ "-" \notin {segments[i][j] : j \in 1..Len(segments[i])}
                  /\ IsLetters(segments[i])}
  IN IF found = {} THEN <<>> ELSE CapWords(segments[Min(found)])

\* Business type indicators of createIntelligentFallback, in the order tried.
TypeIndicators ==
  << [words |-> {"restaurant", "food", "menu", "dining"}, businessType |-> "Restaurant",
      businessContext |-> <<"restaurant", " and dining establishment">>,
      services |-> <<"Dining", "Food Service", "Catering">>],
     [words |-> {"medical", "doctor", "clinic", "health"}, businessType |-> "MedicalBusiness",
      businessContext |-> <<"medical", " practice and healthcare provider">>,
      services |-> <<"Medical Care", "Health Services", "Patient Care">>],
     [words |-> {"law", "legal", "attorney", "lawyer"}, businessType |-> "LegalService",
      businessContext |-> <<"legal", " services provider">>,
      services |-> <<"Legal Consultation", "Legal Representation", "Legal Advice">>],
     [words |-> {"construction", "contractor", "builder", "renovation"},
      businessType |-> "HomeAndConstructionBusiness",
      businessContext |-> <<"construction", " and contracting services">>,
      services |-> <<"Construction", "Renovation", "Contracting", "Home Improvement">>],
     [words |-> {"hvac", "heating", "cooling", "air"}, businessType |-> "HVACBusiness",
      businessContext |-> <<"HVAC", " and climate control services">>,
      services |-> <<"Heating", "Air Conditioning", "HVAC Repair", "HVAC Installation">>],
     [words |-> {"auto", "car", "automotive", "mechanic"}, businessType |-> "AutomotiveBusiness",
      businessContext |-> <<"automotive", " services and repair">>,
      services |-> <<"Auto Repair", "Car Service", "Vehicle Maintenance">>] >>

OtherIndicator ==
  [words |-> {}, businessType |-> "LocalBusiness",
   businessContext |-> <<"professional", " services">>,
   services |-> <<"Professional Services", "Customer Service", "Consultation">>]

\* The first row one of whose words the text includes.
Indicated(rows, other, text) ==
  LET hits == {i \in 1..Len(rows) : \E w \in rows[i].words : Includes(text, <<w>>)}
  IN IF hits = {} THEN other ELSE rows[Min(hits)]

\* services.join(', ')
RECURSIVE JoinComma(_)
JoinComma(items) ==
  IF items = <<>> THEN <<>>
  ELSE IF Len(items) = 1 THEN <<items[1]>>
  ELSE <<items[1], ",", " ">> \o JoinComma(Tail(items))

FallbackPrice(businessType) ==
  IF businessType \in {"LegalService", "MedicalBusiness"} THEN Tier(3)
  ELSE IF businessType \in {"Restaurant", "LocalBusiness"} THEN Tier(2)
  ELSE IF businessType \in {"HomeAndConstructionBusiness", "AutomotiveBusiness"} THEN Tier(3)
  ELSE Tier(2)

\* businessType === 'Restaurant' ? a : 'MedicalBusiness' ? b : 'LegalService' ? c : d
ByType(businessType, dining, medical, legal, other) ==
  CASE businessType = "Restaurant" -> dining
    [] businessType = "MedicalBusiness" -> medical
    [] businessType = "LegalService" -> legal
    [] OTHER -> other

Faq(question, answer) == Obj(Lit2("question", Str(question), "answer", Str(answer)))

\* The record of the catch branch of createIntelligentFallback.
BasicFallback(url) ==
  Obj(Lit2("title", Str(<<"Business Website">>), "h1", Str(<<"Local Business">>))
      @@ Lit2("content",
              Str(<<"This is a professional business website. Please visit ">> \o url.v
                  \o <<" for more information about services and contact details.">>),
              "metaDescription", Str(<<"Professional business services and information.">>))
      @@ Lit2("businessType", Str(<<"LocalBusiness">>), "priceRange", Str(Tier(2)))
      @@ Lit2("contactInfo", Obj(<<>>), "images", Arr(<<>>))
      @@ Lit2("socialLinks", Arr(<<>>), "faqs", Arr(<<>>)))

createIntelligentFallback(url, errorReason) ==
  IF ~UrlParses(url) THEN BasicFallback(url)
  ELSE
    LET businessName == DomainName(Hostname(url))
        row == Indicated(TypeIndicators, OtherIndicator, ToLower(url.v))
        businessType == row.businessType
        businessContext == row.businessContext
        services == JoinComma(row.services)
        location == PathLocation(url)
        isSet == location # <<>>
    IN Obj(
         Lit2("title",
              Str(businessName \o (IF isSet THEN <<" ", "-", " ">> \o location ELSE <<>>)
                  \o <<" ", "|", " ", "Professional", " ">>
                  \o <<CapTok(businessContext[1])>> \o Tail(businessContext)),
              "h1", Str(businessName))
         @@ Lit2("content",
              Str(businessName \o <<" is a trusted ">> \o businessContext \o <<" ">>
                  \o (IF isSet THEN <<"located in ">> \o location
                      ELSE <<"serving the local community">>)
                  \o <<". We are committed to providing high-quality ">>
                  \o <<ByType(businessType, "dining experiences", "healthcare services",
                              "legal representation", "professional services")>>
                  \o <<" to our valued customers. ">>
                  \o <<"Our services include ">> \o services \o <<".">>
                  \o <<" Contact us today to learn more about how we can help you with your ">>
                  \o <<ByType(businessType, "dining", "healthcare", "legal", "service")>>
                  \o <<" needs. We look forward to serving you with excellence and professionalism.">>),
              "metaDescription",
              Str(businessName \o <<" - Professional ">> \o businessContext \o <<" ">>
                  \o (IF isSet THEN <<"in ">> \o location ELSE <<>>)
                  \o <<". Quality ">>
                  \o <<ByType(businessType, "dining", "healthcare", "legal services", "services")>>
                  \o <<" with a commitment to customer satisfaction.">>))
         @@ Lit2("businessType", Str(<<businessType>>), "priceRange", Str(FallbackPrice(businessType)))
         @@ Lit2("contactInfo",
                 Obj(Lit2("phone", Undef, "email", Undef)
                     @@ ("address" :> IF isSet THEN Str(location) ELSE Undef)),
                 "images", Arr(<<>>))
         @@ Lit2("socialLinks", Arr(<<>>), "businessHours", Undef)
         @@ Lit2("faqs",
                 Arr(<< Faq(<<"What services does ">> \o businessName \o <<" offer?">>,
                            businessName \o <<" offers ">> \o services
                            \o <<" with a focus on quality and customer satisfaction.">>),
                        Faq(<<"How can I contact ">> \o businessName \o <<"?">>,
                            <<"You can contact ">> \o businessName \o <<" through our website at ">>
                            \o url.v \o <<" or visit us ">>
                            \o (IF isSet THEN <<"in ">> \o location ELSE <<"at our location">>)
                            \o <<".">>) >>),
                 "reviews", Obj(Lit2("rating", Num(45), "count", Lit(25))))
         @@ ("keywords" :>
               Str(businessName \o <<",", " ">> \o businessContext \o <<",", " ">>
                   \o (IF isSet THEN location ELSE <<"local business">>)
                   \o <<",", " ">> \o services)))

\* What a call ends with when it throws.
Thrown(message) == [k |-> "thrown", v |-> message]

\* The fields fetchPageContent copies from the scraped record.
PageContentFields ==
  {"title", "h1", "content", "metaDescription", "keywords", "businessName", "logo", "websiteUrl",
   "description", "geoCoordinates", "openingHoursSpecification", "aggregateRating",
   "individualReviews", "areaServed", "paymentAccepted", "currenciesAccepted", "amenityFeature",
   "servesCuisine", "acceptsReservations", "hasMenu", "hasDelivery", "hasTakeaway", "slogan",
   "foundingDate", "knowsLanguage", "hasMap", "isAccessibleForFree", "smokingAllowed",
   "servicesOffered", "contactInfo", "images", "socialLinks", "businessHours", "faqs", "reviews",
   "priceRange", "businessType", "_validation"}

PageContentData(scrapedContent) == Obj([field \in PageContentFields |-> Get(scrapedContent, field)])

\* Business type indicators of the catch branch of fetchPageContent.
PathIndicators ==
  << [words |-> {"restaurant", "food", "menu"}, businessType |-> "Restaurant"],
     [words |-> {"medical", "doctor", "clinic"}, businessType |-> "MedicalBusiness"],
     [words |-> {"law", "legal", "attorney"}, businessType |-> "LegalService"],
     [words |-> {"construction", "contractor", "builder"},
      businessType |-> "HomeAndConstructionBusiness"] >>

\* fetchPageContent, catch branch: the scraper threw.
fetchFallback(url) ==
  IF ~UrlParses(url) THEN Thrown("Invalid URL")
  ELSE
    LET businessName == DomainName(Hostname(url))
        row == Indicated(PathIndicators, [businessType |-> "LocalBusiness"], ToLower(Pathname(url)))
    IN Obj(Lit2("title", Str(businessName \o <<" - Business Website">>), "h1", Str(businessName))
           @@ Lit2("content",
                   Str(businessName \o <<" is a business website. Please visit ">> \o url.v
                       \o <<" for more information about their services and contact details.">>),
                   "metaDescription",
                   Str(<<"Visit ">> \o businessName
                       \o <<" for professional services and more information.">>))
           @@ Lit2("businessType", Str(<<row.businessType>>), "contactInfo", Obj(<<>>)))

\* What fetchPageContent returns once every proxy and the direct fetch failed: the
\* first revision of the scraper throws, the second builds its own record.
scrapeFailed(revision, url, lastError) ==
  IF revision = "first" THEN fetchFallback(url)
  ELSE PageContentData(createIntelligentFallback(url, OrElse(lastError, Str(<<"All methods failed">>))))

ScrapeUrls ==
  { Str(HttpScheme \o rest) :
      rest \in { <<"acme", ".", "com">>,
                 <<"www", ".", "acme", "-", "hvac", ".", "com", "/">>,
                 <<"acme", ".", "com", "/", "austin">>,
                 <<"Acme", ".", "com", "/", "services", "/", "austin">>,
                 <<"joes", "_", "diner", ".", "com", "/", "menu">>,
                 <<"smith", "-", "law", ".", "com", "/", "tx">>,
                 <<"acme", ".", "com", "/", "legal", "-", "services">>,
                 <<"acme", ".", "com", "/", "a", "1", "/", "?", "austin">> } }
  \cup {Str(<<"not", " ", "a", " ", "url">>)}

\* A page as parseHtmlContent returns it.
ScrapedPages ==
  { Obj(Lit2("title", Str(<<"Acme">>), "h1", Str(<<"Acme">>))
        @@ Lit2("content", Str(<<"Acme", " ", "HVAC">>), "contactInfo", contactInfo)) :
      contactInfo \in { Obj(<<>>),
                        Obj(Lit2("phone", Str(<<"5", "1", "2", "5", "5", "5", "0", "1", "0", "0">>),
                                 "address", Str(<<"1", " ", "Main", " ", "St">>))) } }

FetchErrors == {Str(<<"HTTP 403: Forbidden">>), Str(<<"Failed to fetch">>)}

InitScrape ==
  /\ phase = "scrapePageContent"
  /\ input \in [url : ScrapeUrls, revision : {"first", "second"}, proxy : {1}, lastError : {Null},
                 requests : {<<>>}]
  /\ output = <<>>
  /\ HomeIdle

Fetching == phase = "scrapePageContent" /\ output = <<>>

\* The fetch calls made so far, the one to the given source added.
fetch(source) == [input EXCEPT !.requests = Append(@, source)]

\* A fetch that asks the same proxy again.
ProxyRetried ==
  /\ Fetching
  /\ input.proxy <= Len(CORS_PROXIES(input.revision))
  /\ \E error \in FetchErrors :
       input' = [fetch(CORS_PROXIES(input.revision)[input.proxy]) EXCEPT !.lastError = error]
  /\ UNCHANGED <<phase, output, lastIndex>>
  /\ UNCHANGED appVars

\* A proxy answers with a page: the parsed page is returned.
ProxyResponds ==
  /\ Fetching
  /\ input.proxy <= Len(CORS_PROXIES(input.revision))
  /\ \E page \in ScrapedPages : output' = <<PageContentData(page)>>
  /\ input' = fetch(CORS_PROXIES(input.revision)[input.proxy])
  /\ UNCHANGED <<phase, lastIndex>>
  /\ UNCHANGED appVars

\* A proxy fails: the error is kept and the next proxy is tried.
ProxyFails ==
  /\ Fetching
  /\ input.proxy <= Len(CORS_PROXIES(input.revision))
  /\ \E error \in FetchErrors :
       input' = [fetch(CORS_PROXIES(input.revision)[input.proxy]) EXCEPT !.proxy = @ + 1, !.lastError = error]
  /\ UNCHANGED <<phase, output, lastIndex>>
  /\ UNCHANGED appVars

\* Every proxy failed and the direct fetch answers.
DirectResponds ==
  /\ Fetching
  /\ input.proxy = Len(CORS_PROXIES(input.revision)) + 1
  /\ \E page \in ScrapedPages : output' = <<PageContentData(page)>>
  /\ input' = fetch("direct")
  /\ UNCHANGED <<phase, lastIndex>>
  /\ UNCHANGED appVars

\* Every proxy failed and the direct fetch fails too.
DirectFails ==
  /\ Fetching
  /\ input.proxy = Len(CORS_PROXIES(input.revision)) + 1
  /\ input' = [fetch("direct") EXCEPT !.proxy = @ + 1]
  /\ output' = <<scrapeFailed(input.revision, input.url, input.lastError)>>
  /\ UNCHANGED <<phase, lastIndex>>
  /\ UNCHANGED appVars

NextScrape == ProxyResponds \/ ProxyFails \/ DirectResponds \/ DirectFails

SpecScrape == InitScrape /\ [][NextScrape]_vars

\* Every fetch settles: the second revision aborts a proxy fetch after 8 s and
\* the direct fetch after 10 s, and a promise that settled resumes the function.
SpecScrapeSettles == SpecScrape /\ WF_vars(NextScrape)

----------------------------------------------------------------------------
(* AIProviderManager: keys, active provider and URL-based generation *)

AIProviders == {"gemini", "openai", "claude"}

defaultModel ==
  [provider \in AIProviders |->
     CASE provider = "gemini" -> "gemini-2.0-flash-exp"
       [] provider = "openai" -> "gpt-4o-mini"
       [] provider = "claude" -> "claude-3-5-haiku-20241022"]

\* The manager after construction with nothing saved: no key, nothing enabled,
\* 'gemini' active.
NewManager ==
  [configs |-> [provider \in AIProviders |-> [apiKey |-> Undef, enabled |-> FALSE]],
   activeProvider |-> "gemini"]

\* config?.enabled && config?.apiKey
getAvailableProviders(manager) ==
  {provider \in AIProviders :
     manager.configs[provider].enabled /\ Truthy(manager.configs[provider].apiKey)}

\* provider || this.activeProvider
selectedProvider(manager, provider) ==
  IF provider # Undef THEN provider ELSE manager.activeProvider

\* generateSchemaFromUrl of the manager: the provider's answer, or the error thrown.
managerGenerate(manager, provider, response) ==
  LET selected == selectedProvider(manager, provider)
      config == manager.configs[selected]
  IN IF ~config.enabled \/ ~Truthy(config.apiKey)
     THEN Thrown("Provider " \o selected \o " is not configured or enabled")
     ELSE IF response = "error" THEN Thrown("generateContent failed")
     ELSE [k |-> "generated", provider |-> selected, model |-> defaultModel[selected]]

\* generateSchemaFromUrl of the flow: the manager when a provider is available,
\* the genkit flow when none is or when the manager threw.
flowGenerate(manager, response) ==
  LET result == managerGenerate(manager, Undef, response)
  IN IF getAvailableProviders(manager) # {} /\ result.k = "generated" THEN result
     ELSE [k |-> "generated", provider |-> "genkit", model |-> "genkit"]

ApiKeys == {Str(<<>>), Str(<<"key">>)}

InitProviders ==
  /\ phase = "AIProviderManager"
  /\ input = NewManager
  /\ output = <<>>
  /\ lastIndex = FreshPatterns
  /\ HomeIdle

\* setApiKey(provider, apiKey)
setApiKey ==
  \E provider \in AIProviders, apiKey \in ApiKeys :
    /\ phase = "AIProviderManager"
    /\ input' = [input EXCEPT !.configs[provider] = [apiKey |-> apiKey, enabled |-> Truthy(apiKey)]]
    /\ UNCHANGED <<phase, output, lastIndex>>
    /\ UNCHANGED appVars

\* setActiveProvider(provider)
setActiveProvider ==
  \E provider \in AIProviders :
    /\ phase = "AIProviderManager"
    /\ input' = [input EXCEPT !.activeProvider = provider]
    /\ UNCHANGED <<phase, output, lastIndex>>
    /\ UNCHANGED appVars

\* aiProviderManager.generateSchemaFromUrl(input) without a provider
generateSchemaFromUrl ==
  \E response \in {"ok", "error"} :
    /\ phase = "AIProviderManager"
    /\ output' = <<[call |-> "manager", result |-> managerGenerate(input, Undef, response)]>>
    /\ UNCHANGED <<phase, input, lastIndex>>
    /\ UNCHANGED appVars

\* generateSchemaFromUrl(input) of the flow module
generateSchemaFromUrlFlow ==
  \E response \in {"ok", "error"} :
    /\ phase = "AIProviderManager"
    /\ output' = <<[call |-> "flow", result |-> flowGenerate(input, response)]>>
    /\ UNCHANGED <<phase, input, lastIndex>>
    /\ UNCHANGED appVars

NextProviders == setApiKey \/ setActiveProvider \/ generateSchemaFromUrl \/ generateSchemaFromUrlFlow

SpecProviders == InitProviders /\ [][NextProviders]_vars

----------------------------------------------------------------------------
(* The page extractors: parseHtmlContent (scraper) and fetchPageContentTool (flow) *)

ImageCap == 10
ReviewCap == 10
ServiceCap == 20

\* An element of the page: its href attribute, if it has one, and its text.
Element(href, text) == [k |-> "element", href |-> href, text |-> text]

\* phoneRegex on one run of text: an optional +1, then 3, 3 and 4 digits with
\* optional brackets and separators.
MatchesPhone(word) ==
  /\ \A i \in 1..Len(word) : IsDigit(word[i]) \/ word[i] \in {"+", "(", ")", "-", ".", " "}
  /\ \/ Len(OnlyDigits(word)) = 10
     \/ Len(OnlyDigits(word)) = 11 /\ Head(OnlyDigits(word)) = "1"

\* emailRegex on one run of text: a local part, '@', a domain, '.', letters.
MatchesEmail(word) ==
  /\ \A i \in 1..Len(word) : ~IsSpace(word[i])
  /\ \E a \in 2..Len(word) :
       /\ word[a] = "@"
       /\ \E d \in (a + 2)..(Len(word) - 1) : word[d] = "." /\ IsWordTok(word[Len(word)])

\* String.prototype.replace(scheme, '') with a string pattern: the first occurrence
ReplaceFirst(s, scheme) ==
  LET i == IndexOf(s, scheme, 1)
  IN IF i = 0 THEN s ELSE SubSeq(s, 1, i - 1) \o SubSeq(s, i + 1, Len(s))

\* The addresses the text filter of the scraper lets through.
scraperFiltered(emails) ==
  SelectSeq(emails, LAMBDA email : /\ ~Includes(email, <<"example", ".", "com">>)
                                   /\ ~Includes(email, <<"test", ".", "com">>)
                                   /\ ~Includes(email, <<"placeholder">>)
                                   /\ ~Includes(email, <<"domain", ".", "com">>))

\* The addresses the text filter of the flow lets through.
flowFiltered(emails) ==
  SelectSeq(emails, LAMBDA email : /\ ~Includes(email, <<"example", ".", "com">>)
                                   /\ ~Includes(email, <<"test", ".", "com">>)
                                   /\ ~Includes(email, <<"placeholder">>))

\* link.attr('href')?.replace(scheme, '') || link.text()
hrefOrText(link, scheme) ==
  IF link.href # Undef /\ ReplaceFirst(link.href.v, scheme) # <<>>
  THEN ReplaceFirst(link.href.v, scheme)
  ELSE link.text

\* A cascade that asks the link or class-named element before the text.
scraperPhoneLinkFirst(page) ==
  IF page.phoneLink # Undef /\ hrefOrText(page.phoneLink, "tel:") # <<>>
  THEN scraperFormatPhoneNumber(Str(Trim(hrefOrText(page.phoneLink, "tel:"))))
  ELSE IF SelectSeq(page.text, MatchesPhone) # <<>>
  THEN scraperFormatPhoneNumber(Str(Trim(SelectSeq(page.text, MatchesPhone)[1])))
  ELSE Absent

\* contactInfo.phone of parseHtmlContent: the first match of the text, formatted;
\* the link or class-named element only when the text gave nothing.
scraperPhone(page) ==
  LET phoneMatch == SelectSeq(page.text, MatchesPhone)
  IN IF phoneMatch # <<>> THEN scraperFormatPhoneNumber(Str(Trim(phoneMatch[1])))
     ELSE IF page.phoneLink # Undef /\ hrefOrText(page.phoneLink, "tel:") # <<>>
     THEN scraperFormatPhoneNumber(Str(Trim(hrefOrText(page.phoneLink, "tel:"))))
     ELSE Absent

\* contactInfo.email of parseHtmlContent
scraperEmail(page) ==
  LET filteredEmails == scraperFiltered(SelectSeq(page.text, MatchesEmail))
  IN IF filteredEmails # <<>> THEN Str(filteredEmails[1])
     ELSE IF page.emailLink # Undef /\ hrefOrText(page.emailLink, "mailto:") # <<>>
     THEN Str(Trim(hrefOrText(page.emailLink, "mailto:")))
     ELSE Absent

\* What a selector of the flow gives: the href behind its scheme, or the text
\* when the pattern found a match in it.
flowSelected(link, scheme, matched) ==
  IF link = Undef THEN Absent
  ELSE IF link.href # Undef /\ StartsWith(link.href.v, <<scheme>>)
  THEN Str(Trim(ReplaceFirst(link.href.v, scheme)))
  ELSE IF link.text # <<>> /\ matched THEN Str(link.text)
  ELSE Absent

\* contactInfo.phone of the flow
flowPhone(page) ==
  LET phoneMatches == SelectSeq(page.text, MatchesPhone)
  IN IF phoneMatches # <<>> THEN Str(Trim(phoneMatches[1]))
     ELSE flowSelected(page.phoneLink, "tel:", page.phoneLink # Undef /\ MatchesPhone(page.phoneLink.text))

\* contactInfo.email of the flow
flowEmail(page) ==
  LET filteredEmails == flowFiltered(SelectSeq(page.text, MatchesEmail))
  IN IF filteredEmails # <<>> THEN Str(filteredEmails[1])
     ELSE flowSelected(page.emailLink, "mailto:", page.emailLink # Undef /\ MatchesEmail(page.emailLink.text))

\* array.slice(0, cap)
Slice(a, cap) == SubSeq(a, 1, Min({cap, Len(a)}))

\* items.length > 0 ? items : undefined
NonEmpty(items) == IF items = <<>> THEN Absent ELSE Arr(items)

\* Object.keys(o).length > 0 ? o : undefined
NonEmptyObject(o) == IF DOMAIN o.v = {} THEN Absent ELSE o

\* The images wide and high enough, or without a stated size.
LargeImages(imgs) ==
  SelectSeq(imgs, LAMBDA img : (img.width = 0 \/ img.width >= 200) /\ (img.height = 0 \/ img.height >= 150))

\* The reviews with an author and a body of more than 10 characters, the first 10.
individualReviews(reviews) ==
  Slice(SelectSeq([i \in 1..Len(reviews) |->
                     [reviews[i] EXCEPT !.author = IF @ = <<>> THEN <<"Anonymous">> ELSE @]],
                  LAMBDA review : TextLen(review.reviewBody) > 10),
        ReviewCap)

\* The services with a name of less than 100 characters.
servicesOffered(services) ==
  SelectSeq(services, LAMBDA service : service.name # <<>> /\ TextLen(service.name) < 100)

\* The record parseHtmlContent returns, the fields of the page's lists and
\* of its contact block.
parseHtmlContent(page) ==
  Node(Lit2("contactInfo", NonEmptyObject(Node(Lit2("phone", scraperPhone(page), "email", scraperEmail(page)))),
            "images", NonEmpty(Slice(LargeImages(page.imgs), ImageCap)))
       @@ Lit2("individualReviews", NonEmpty(individualReviews(page.reviews)),
               "servicesOffered", NonEmpty(servicesOffered(page.services))))

\* The record fetchPageContentTool returns, the same fields.
fetchPageContentTool(page) ==
  Node(Lit2("contactInfo", NonEmptyObject(Node(Lit2("phone", flowPhone(page), "email", flowEmail(page)))),
            "images", NonEmpty(Slice(LargeImages(page.imgs), ImageCap)))
       @@ ("services" :>
             NonEmpty(Slice(SelectSeq(page.services,
                                      LAMBDA service : TextLen(service.name) < 100 /\ TextLen(service.name) > 3),
                            ServiceCap))))

PagePhone(last) == <<"5", "1", "2", "-", "5", "5", "5", "-", "0", "1", "0", last>>
PageEmail(domain) == <<"info", "@", domain, ".", "com">>

\* The runs of text of header, body and footer.
PageTexts ==
  { <<>>,
    << <<"Call">>, PagePhone("9") >>,
    << <<"Write">>, PageEmail("acme") >>,
    << PageEmail("example"), PageEmail("acme"), PagePhone("9") >>,
    << PageEmail("test"), <<"placeholder", "@", "acme", ".", "com">> >> }

PhoneLinks ==
  { Undef,
    Element(Str(<<"tel:">> \o PagePhone("0")), <<"Call">>),
    Element(Undef, PagePhone("0")) }

EmailLinks ==
  { Undef,
    Element(Str(<<"mailto:">> \o PageEmail("sales")), <<"Write">>),
    Element(Str(<<"mailto:">> \o PageEmail("example")), <<"Write">>),
    Element(Undef, PageEmail("test")) }

Numbered(n) == DigitsOf(n)

\* The lists of a page: images, an icon first; reviews, a short one first;
\* services.
PageLists(imgs, reviews, services) ==
  [imgs |-> <<[src |-> <<"icon">>, width |-> 16, height |-> 16]>>
            \o [i \in 1..imgs |-> [src |-> <<"img">> \o Numbered(i), width |-> 0, height |-> 0]],
   reviews |-> <<[author |-> <<"Ann">>, reviewBody |-> <<"ok">>]>>
               \o [i \in 1..reviews |->
                     [author |-> IF i = 1 THEN <<>> ELSE <<"Ann">>,
                      reviewBody |-> <<"Great", " ", "service", " ", "number", " ">> \o Numbered(i)]],
   services |-> [i \in 1..services |-> [name |-> <<"Repair", " ">> \o Numbered(i)]]]

\* Few items, as many as the caps allow, and one more of each.
ListSizes ==
  { PageLists(0, 0, 0), PageLists(2, 1, 3),
    PageLists(ImageCap, ReviewCap, ServiceCap),
    PageLists(ImageCap + 1, ReviewCap + 1, ServiceCap + 1) }

Pages ==
  { [text |-> text, phoneLink |-> phoneLink, emailLink |-> emailLink,
     imgs |-> lists.imgs, reviews |-> lists.reviews, services |-> lists.services] :
      text \in PageTexts, phoneLink \in PhoneLinks, emailLink \in EmailLinks, lists \in ListSizes }

InitExtract ==
  /\ phase = "parseHtmlContent"
  /\ input \in [extractor : {"scraper", "flow"}, page : Pages]
  /\ output = <<>>
  /\ lastIndex = FreshPatterns
  /\ HomeIdle

\* parseHtmlContent(html, url) of the scraper
ExtractScraper ==
  /\ phase = "parseHtmlContent"
  /\ input.extractor = "scraper"
  /\ output = <<>>
  /\ output' = <<parseHtmlContent(input.page)>>
  /\ UNCHANGED <<phase, input, lastIndex>>
  /\ UNCHANGED appVars

\* fetchPageContentTool({url}) of the flow
ExtractFlow ==
  /\ phase = "parseHtmlContent"
  /\ input.extractor = "flow"
  /\ output = <<>>
  /\ output' = <<fetchPageContentTool(input.page)>>
  /\ UNCHANGED <<phase, input, lastIndex>>
  /\ UNCHANGED appVars

NextExtract == ExtractScraper \/ ExtractFlow

SpecExtract == InitExtract /\ [][NextExtract]_vars

---------------------------------------------------------------------------
(* Properties *)

\* C1: cleanObject is idempotent: cleaning the result of a pass again yields
\* the identical document.
CleanIsIdempotent ==
  (phase = "cleanObject" /\ Len(output) = 2) => output[2] = output[1]

\* C2: a business-like node without a name, of any content type of the form
\* or an Organization, is dropped by cleanObject.
NamelessBusinessDropped ==
  (/\ phase = "cleanObject"
   /\ output # <<>>
   /\ \E type \in NodeTypes : HasType(input, type)
   /\ ~Truthy(Get(input, "name")))
  => output[1] = Null

\* The rating node of a cleaned document: the document itself, or the one
\* its main entity carries.
RatingOf(doc) ==
  IF HasType(doc, "AggregateRating") THEN doc
  ELSE Get(Get(doc, "mainEntity"), "aggregateRating")

RatingWithinBounds(node) ==
  \/ ~IsObj(node)
  \/ /\ IsNum(parseFloat(Get(node, "ratingValue")))
     /\ parseFloat(Get(node, "ratingValue")).v \in 10..50
     /\ IsNum(parseFloat(Get(node, "reviewCount")))
     /\ parseFloat(Get(node, "reviewCount")).v >= 10
     /\ parseFloat(Get(node, "reviewCount")).v % 10 = 0

\* C3: after cleanObject a rating node is absent, or its ratingValue is a
\* number from 1 to 5 and its reviewCount is an integer of at least 1.
RatingsWithinBounds ==
  (phase = "cleanObject" /\ output # <<>>) => RatingWithinBounds(RatingOf(output[1]))

GeoOf(doc) ==
  IF HasType(doc, "GeoCoordinates") THEN doc
  ELSE Get(Get(doc, "mainEntity"), "geo")

GeoWithinBounds(node) ==
  \/ ~IsObj(node)
  \/ /\ IsNum(parseFloat(Get(node, "latitude")))
     /\ parseFloat(Get(node, "latitude")).v \in -900..900
     /\ IsNum(parseFloat(Get(node, "longitude")))
     /\ parseFloat(Get(node, "longitude")).v \in -1800..1800

\* C4: after cleanObject a geo node is absent, or its latitude lies within
\* -90..90 and its longitude within -180..180.
GeosWithinBounds ==
  (phase = "cleanObject" /\ output # <<>>) => GeoWithinBounds(GeoOf(output[1]))

\* The tier the priority text > city > category > default assigns.
PriorityTier(city, businessType, text) ==
  IF Includes(text, <<"luxury">>) \/ Includes(text, <<"premium">>) THEN Tier(4)
  ELSE IF Includes(text, <<"upscale">>) THEN Tier(3)
  ELSE IF Includes(text, <<"affordable">>) \/ Includes(text, <<"budget">>) THEN Tier(1)
  ELSE IF Includes(text, <<"value">>) \/ Includes(text, <<"reasonable">>) THEN Tier(2)
  ELSE IF IsStr(city) /\ Trim(ToLower(city.v)) \in DOMAIN cityPriceMapping
  THEN cityPriceMapping[Trim(ToLower(city.v))]
  ELSE IF businessType.v \in DOMAIN businessTypePriceMapping
  THEN businessTypePriceMapping[businessType.v]
  ELSE Tier(2)

AddressMissing ==
  /\ phase = "validateFormData"
  /\ ~input.isAi
  /\ Get(input.form, "contentType") = Str(<<"LocalBusiness">>)
  /\ TrimTruthy(Get(input.form, "name"))
  /\ TrimTruthy(Get(input.form, "description"))
  /\ ~TrimTruthy(Get(input.form, "streetAddress"))
  /\ ~TrimTruthy(Get(input.form, "addressLocality"))
  /\ ~TrimTruthy(Get(input.form, "addressRegion"))

\* The values of the forms that their field's check refuses.
InvalidEntries ==
  { <<"email", Str(<<"bad">>)>>,
    <<"websiteUrl", Str(<<"not", " ", "a", " ", "url">>)>>,
    <<"publisherLogoUrl", Str(<<"not", " ", "a", " ", "url">>)>>,
    <<"latitude", Str(<<"abc">>)>>, <<"latitude", Str(<<"9", "5">>)>>,
    <<"longitude", Str(<<"abc">>)>>, <<"longitude", Str(<<"-", "1", "8", "1">>)>>,
    <<"ratingValue", Str(<<"abc">>)>>, <<"ratingValue", Str(<<"6">>)>>,
    <<"reviewCount", Str(<<"abc">>)>>, <<"reviewCount", Str(<<"0">>)>>,
    <<"postalCode", Str(<<"abc">>)>> }

Holds(form, entry) == Get(form, entry[1]) = entry[2]

\* The error validateFormData reports for a field.
ErrorOf(field) ==
  CASE field = "email" -> "Invalid email format"
    [] field = "websiteUrl" -> "Invalid website URL"
    [] field = "publisherLogoUrl" -> "Invalid publisher logo URL"
    [] field = "latitude" -> "Invalid latitude (must be between -90 and 90)"
    [] field = "longitude" -> "Invalid longitude (must be between -180 and 180)"
    [] field = "ratingValue" -> "Rating must be between 1 and 5"
    [] field = "reviewCount" -> "Review count must be a positive number"
    [] field = "postalCode" -> "Invalid postal code format"

Reported(result, field) == \E i \in 1..Len(result.errors) : result.errors[i] = ErrorOf(field)

AddressErrors == <<"Street address is required", "City is required", "State/Region is required">>

\* C6 as stated: the rejection lists a single error, the missing address.
OnlyOneAddressError ==
  (AddressMissing /\ output # <<>>)
  => (~output[1].isValid /\ Len(output[1].errors) = 1)

\* C6: a strict LocalBusiness form with name and description and without
\* street, city and region is rejected; its errors begin with the three
\* address errors, one for street, for city and for region in that order, and
\* any further error is the error of a field that holds a refused value.
ThreeAddressErrors ==
  (AddressMissing /\ output # <<>>)
  => /\ ~output[1].isValid
     /\ Len(output[1].errors) >= 3
     /\ SubSeq(output[1].errors, 1, 3) = AddressErrors
     /\ \A i \in 4..Len(output[1].errors) :
          \E entry \in InvalidEntries :
            Holds(input.form, entry) /\ output[1].errors[i] = ErrorOf(entry[1])

\* A rejection of exactly the three address errors.
ThreeAddressErrorsSeen ==
  AddressMissing /\ output # <<>> /\ output[1].errors = AddressErrors

\* C7: a generateSchema run on a form validateFormData rejects calls nothing
\* but validateFormData, and leaves the generated schema and the schema
\* history as they were.
RejectionProducesNothing ==
  [][(generateSchema /\ ~validateFormData(formData, isAiGenerated).isValid)
     => /\ lastRun'.outcome = "rejected"
        /\ lastRun'.calls = <<"validateFormData">>
        /\ generatedSchema' = generatedSchema
        /\ schemaHistory' = schemaHistory]_vars

\* A rejected run while a schema is displayed and the history holds items.
RejectedWithSchemaShown ==
  /\ lastRun.outcome = "rejected"
  /\ generatedSchema # Str(<<>>)
  /\ schemaHistory # <<>>

\* What C8 says of one refused value: an error in strict mode, no error and
\* no field in lenient mode.
RefusedValueHandled(entry) ==
  Holds(input.form, entry)
  => IF input.isAi
     THEN ~Reported(output[1], entry[1]) /\ entry[1] \notin DOMAIN output[1].cleanedData.v
     ELSE Reported(output[1], entry[1]) /\ ~output[1].isValid

\* C8 as stated: every refused value, the postal code of any content type
\* included, is an error in strict mode and is dropped in lenient mode.
EveryRefusedValueHandled ==
  (phase = "validateFormData" /\ output # <<>>)
  => \A entry \in InvalidEntries : RefusedValueHandled(entry)

\* C8: a refused e-mail, website url, publisher logo url, latitude,
\* longitude, rating value or review count is an error in strict mode and is
\* dropped without an error in lenient mode; so is a refused postal code of
\* a business-like form, while the postal code of an Article or HowTo form
\* is not checked: no error, and the field stays.
RefusedValuesHandled ==
  (phase = "validateFormData" /\ output # <<>>)
  => \A entry \in InvalidEntries :
       IF entry[1] = "postalCode" /\ ~IsBusinessForm(input.form)
       THEN Holds(input.form, entry)
            => /\ ~Reported(output[1], "postalCode")
               /\ Get(output[1].cleanedData, "postalCode") = entry[2]
       ELSE RefusedValueHandled(entry)

\* A lenient validation that dropped a refused e-mail address.
RefusedEmailDropped ==
  /\ phase = "validateFormData"
  /\ output # <<>>
  /\ input.isAi
  /\ Holds(input.form, <<"email", Str(<<"bad">>)>>)
  /\ output[1].isValid
  /\ "email" \notin DOMAIN output[1].cleanedData.v

\* A lenient business-like form with name and description.
LenientBusiness ==
  /\ phase = "validateFormData"
  /\ input.isAi
  /\ IsBusinessForm(input.form)
  /\ TrimTruthy(Get(input.form, "name"))
  /\ TrimTruthy(Get(input.form, "description"))

SomeAddress(form) ==
  \/ TrimTruthy(Get(form, "streetAddress"))
  \/ TrimTruthy(Get(form, "addressLocality"))
  \/ TrimTruthy(Get(form, "addressRegion"))
  \/ TrimTruthy(Get(form, "postalCode"))

\* C9 as stated: a lenient business-like form with name and description is
\* accepted exactly when it holds a street, a city, a region or a postal code.
LenientNeedsSomeAddress ==
  (LenientBusiness /\ output # <<>>) => (output[1].isValid <=> SomeAddress(input.form))

\* C9: a lenient business-like form with name and description is accepted
\* whether or not it holds any address data; without any, validateFormData
\* only warns that placeholders will be used.
LenientAcceptsNoAddress ==
  (LenientBusiness /\ output # <<>>)
  => /\ output[1].isValid
     /\ ~SomeAddress(input.form)
        <=> \E i \in 1..Len(output[1].warnings) :
              output[1].warnings[i] = "No address information found - will use placeholders"

\* A lenient form without any address data that was accepted.
NoAddressAccepted ==
  LenientBusiness /\ output # <<>> /\ ~SomeAddress(input.form) /\ output[1].isValid

\* C10: 'Monday-Friday: 9:00 AM-5:00 PM' yields five nodes, Monday to
\* Friday, each opening at 09:00 and closing at 17:00.
MondayFridayExpands ==
  (phase = "formatBusinessHours" /\ output # <<>> /\ input = Str(MondayFridayAmPm))
  => output[1] = Arr([i \in 1..5 |-> OpeningHoursNode(WeekDays[i], T0900, T1700)])

\* The whole string s matches the pattern registered for the country.
WholeMatch(text, country) ==
  /\ IsStr(text)
  /\ text.v # <<>>
  /\ IF PatternKey(country) = <<"UK">> THEN Len(text.v) + 1 \in EndsUK(text.v, 1) /\ WordBoundary(text.v, 1)
     ELSE postalCodePatterns(country, text.v, 1) = Len(text.v)

\* C11: isValidPostalCode(code, country) is true exactly when the whole
\* string matches the pattern of the country (the default one for an unknown
\* country), and false for a code that stands next to other text.
PostalCodeMatchesWhole ==
  (phase = "postalCode" /\ output # <<>> /\ input.fn = "isValidPostalCode")
  => (output[1] <=> WholeMatch(input.args[1], CountryOf(input.args[2])))

\* What a call returns when no call was made before it.
FreshResult(fn, args) ==
  CASE fn = "isValidPostalCode" -> isValidPostalCode(args[1], CountryOf(args[2]))
    [] fn = "extractPostalCode" -> extractPostalCode(args[1], CountryOf(args[2]))
    [] fn = "cleanObject" -> Get(AddressValidate(AddressExtract(args[1])), "postalCode")
    [] fn = "validateFormData" -> PostalInvalid(args[1])

\* C18: the result of isValidPostalCode, of extractPostalCode and of the
\* postal code steps of cleanObject and validateFormData is the same whatever
\* calls were made before: no call starts from the position an earlier call
\* left in a pattern.
CallsAreIndependent ==
  (phase = "postalCode" /\ output # <<>>) => output[1] = FreshResult(input.fn, input.args)

\* A postal code accepted by a call that found its pattern behind a match of
\* the same length.
PositionCarriedIntoCall ==
  /\ phase = "postalCode"
  /\ output # <<>>
  /\ input.fn = "isValidPostalCode"
  /\ input.args = <<Str(Digits78701), Str(<<"US">>)>>
  /\ input.found[<<"US">>] = 5
  /\ output[1] = TRUE

IsCanonicalPhone(s) ==
  /\ Len(s) = 15
  /\ SubSeq(s, 1, 3) = <<"+", "1", "-">>
  /\ s[7] = "-" /\ s[11] = "-"
  /\ \A i \in (4..6) \cup (8..10) \cup (12..15) : IsDigit(s[i])

TenOrElevenDigits(phone) ==
  LET digits == OnlyDigits(phone.v)
  IN Len(digits) = 10 \/ (Len(digits) = 11 /\ digits[1] = "1")

\* C12: for an input whose digits are ten digits, or eleven digits beginning with 1, both
\* formatPhoneNumber implementations return a string of the shape +1-XXX-XXX-XXXX, and
\* formatting that result again returns the same string.
PhoneFormatIsStable ==
  (phase = "formatPhoneNumber" /\ TenOrElevenDigits(input.phone)) =>
    /\ Len(output) >= 1 => (output[1].k = "string" /\ IsCanonicalPhone(output[1].v))
    /\ Len(output) = 2 => output[2] = output[1]

PhoneReformatted ==
  /\ phase = "formatPhoneNumber" /\ Len(output) = 2
  /\ input.formatter = "scraper"
  /\ input.phone = Str(PhoneLayout("parens", <<"5", "1", "2">>, <<"5", "5", "5">>, <<"0", "1", "0", "0">>))
  /\ output[2] = Str(PhoneLayout("canonical", <<"5", "1", "2">>, <<"5", "5", "5">>, <<"0", "1", "0", "0">>))

CityWithoutRegion(o) ==
  /\ o \in AddressDocs
  /\ Truthy(Get(o, "addressLocality"))
  /\ ~Truthy(Get(o, "addressRegion"))

CityKey(o) == Trim(ToLower(Get(o, "addressLocality").v))

\* C13: when cleanObject processes an address node that has a city and no region, the
\* region of the result is the city table's value for the lower-cased, trimmed city
\* whenever the table has it, and the literal "State" only when the table does not.
RegionInferredFromCity ==
  (phase = "cleanObject" /\ CityWithoutRegion(input) /\ output # <<>>) =>
    /\ CityKey(input) \in DOMAIN cityStateMapping =>
          Get(output[1], "addressRegion") = Str(cityStateMapping[CityKey(input)])
    /\ Get(output[1], "addressRegion") = Str(StateLiteral) =>
          CityKey(input) \notin DOMAIN cityStateMapping

AustinInferredTexas ==
  /\ phase = "cleanObject" /\ CityWithoutRegion(input) /\ output # <<>>
  /\ Get(input, "addressLocality") = Str(<<" ", "AUSTIN", " ">>)
  /\ Get(output[1], "addressRegion") = Str(<<"TX">>)

CanonicalTiers == {Str(Tier(n)) : n \in 1..4}

\* C14: when the input carries a price range that is already one of $, $$, $$$, $$$$,
\* validateFormData returns that value in cleanedData, and cleanObject returns the
\* business node with that priceRange (a node it returns at all: a nameless node of a
\* type of its business list is dropped), whatever city, category, name and description.
ExplicitPriceRangeKept ==
  /\ (phase = "validateFormData" /\ output # <<>>
       /\ Get(input.form, "priceRange") \in CanonicalTiers) =>
        Get(output[1].cleanedData, "priceRange") = Get(input.form, "priceRange")
  /\ (phase = "cleanObject" /\ output # <<>> /\ input \in PricedDocs
       /\ Get(input, "priceRange") \in CanonicalTiers) =>
        \A i \in 1..Len(output) :
          IF output[i] = Null
          THEN ~Truthy(Get(input, "name")) /\ ~HasType(input, "HVACBusiness")
          ELSE Get(output[i], "priceRange") = Get(input, "priceRange")

LuxuryInAustinStaysCheap ==
  /\ phase = "cleanObject" /\ output # <<>> /\ input \in PricedDocs
  /\ Get(input, "name") = Str(<<"Luxury", " ", "Acme">>)
  /\ HasType(input, "LocalBusiness")
  /\ Truthy(Get(input, "address"))
  /\ Get(input, "priceRange") = Str(Tier(1))
  /\ Get(output[1], "priceRange") = Str(Tier(1))

\* C15: for every input price-range string, a priceRange contained in the cleanedData
\* that validateFormData returns is one of the four tiers $, $$, $$$, $$$$.
CleanedPriceIsTier ==
  (phase = "validateFormData" /\ output # <<>>
   /\ Truthy(Get(output[1].cleanedData, "priceRange"))) =>
    Get(output[1].cleanedData, "priceRange") \in CanonicalTiers

AllFetchesFailed ==
  /\ phase = "scrapePageContent"
  /\ input.proxy = Len(CORS_PROXIES(input.revision)) + 2

\* C16: when every proxy attempt and the direct fetch fail for a URL, generation goes on
\* with a placeholder page record built from the URL alone (its name derived from the
\* domain) that carries no contact information: phone, email and address are absent.
PlaceholderHasNoContact ==
  (AllFetchesFailed /\ UrlParses(input.url)) =>
    /\ output[1].k = "object"
    /\ Get(output[1], "h1") = Str(DomainName(Hostname(input.url)))
    /\ \A field \in {"phone", "email", "address"} :
         Get(Get(output[1], "contactInfo"), field) = Undef

StageOrder == <<"validateFormData", "synthesis", "cleanObject", "validateSchema">>

StageRank(stage) == CHOOSE i \in 1..Len(StageOrder) : StageOrder[i] = stage

\* No stage is entered after a later stage has started.
StagesInOrder(calls) ==
  \A i, j \in 1..Len(calls) : i < j => StageRank(calls[i]) <= StageRank(calls[j])

\* A run ends in one outcome: a document is emitted, or a rejection is reported by a
\* toast and the displayed schema and the history stay as they were.
OneOutcome ==
  IF lastRun'.outcome = "emitted"
  THEN /\ lastRun'.toast = Success
       /\ generatedSchema'.k = "script"
       /\ Len(schemaHistory') = Min({HistoryCap, Len(schemaHistory) + 1})
  ELSE /\ lastRun'.outcome \in {"rejected", "no steps", "no address", "invalid schema"}
       /\ lastRun'.toast \in {"Validation Error", "Missing Information",
                             "Missing Address Information", "Schema Validation Error"}
       /\ generatedSchema' = generatedSchema
       /\ schemaHistory' = schemaHistory

DocumentStages == <<"validateFormData", "synthesis", "cleanObject", "validateSchema">>

BusinessStages ==
  <<"validateFormData", "synthesis", "cleanObject", "synthesis", "cleanObject", "validateSchema">>

DayNames == {"Monday", "Tuesday", "Wednesday", "Thursday", "Friday", "Saturday", "Sunday"}

\* A line 'Day: HH:MM-HH:MM' with valid 24-hour times.
DayTimesLine(line) ==
  /\ Len(line) = 14
  /\ line[1] \in DayNames /\ line[2] = ":" /\ line[3] = " " /\ line[9] = "-"
  /\ isValidTimeFormat(Str(SubSeq(line, 4, 8)))
  /\ isValidTimeFormat(Str(SubSeq(line, 10, 14)))

\* The opening-hours nodes of the business node of a generated document.
HoursNodes(script) ==
  LET hours == Get(Get(script.v, "mainEntity"), "openingHoursSpecification")
  IN IF IsArr(hours) THEN {hours.v[i] : i \in 1..Len(hours.v)} ELSE {}

TypedLines == LET lines == Lines(Get(formData, "businessHours").v) IN {lines[i] : i \in 1..Len(lines)}

\* C19: in the manual business path every business-hours line 'Day: HH:MM-HH:MM' with
\* valid 24-hour times produces an OpeningHoursSpecification node with that day, opens
\* and closes in the document the run emits.
HoursLinesBecomeNodes ==
  [][(generateSchema /\ lastRun'.outcome = "emitted") =>
       \A line \in TypedLines :
         DayTimesLine(line) =>
           OpeningHoursNode(<<line[1]>>, SubSeq(line, 4, 8), SubSeq(line, 10, 14))
             \in HoursNodes(generatedSchema')]_vars

AddressParts == {"streetAddress", "addressLocality", "addressRegion", "postalCode"}

\* C20: cleanObject removes an address node exactly when none of street, city, region
\* and postal code is present (the postal code as found in the address text and
\* checked); an address node that remains has addressCountry set, its components
\* trimmed, and at least one non-empty component among the four.
AddressKeptWithComponent ==
  (phase = "cleanObject" /\ input \in AddressDocs /\ output # <<>>) =>
    LET settled == AddressValidate(AddressExtract(input))
    IN /\ output[1] = Null <=> \A part \in AddressParts : ~Truthy(Get(settled, part))
       /\ output[1] # Null =>
            /\ Truthy(Get(output[1], "addressCountry"))
            /\ \A part \in AddressParts :
                 Truthy(Get(output[1], part)) => Trim(Get(output[1], part).v) = Get(output[1], part).v
            /\ \E part \in AddressParts : Truthy(Get(output[1], part))

\* null, undefined, '', [] or an untyped object without keys
IsEmptyValue(x) ==
  \/ x \in {Null, Undef}
  \/ x = Str(<<>>)
  \/ IsArr(x) /\ Len(x.v) = 0
  \/ IsObj(x) /\ DOMAIN x.v = {}

RECURSIVE NoEmptyValue(_)
NoEmptyValue(x) ==
  IF IsObj(x) THEN \A key \in DOMAIN x.v : ~IsEmptyValue(x.v[key]) /\ NoEmptyValue(x.v[key])
  ELSE IF IsArr(x) THEN \A i \in 1..Len(x.v) : ~IsEmptyValue(x.v[i]) /\ NoEmptyValue(x.v[i])
  ELSE TRUE

\* C21: the output of cleanObject holds no empty value at any depth: no key maps to
\* null, undefined, '', [] or an untyped object without keys, and no array has such
\* an element.
CleanedHasNoEmptyValue ==
  (phase = "cleanObject" /\ output # <<>>) => NoEmptyValue(output[1])

\* A position as generateSchema builds it: both coordinates are numbers, the
\* latitude within -90..90 and the longitude within -180..180.
GeoGivenInRange(node) ==
  /\ HasType(node, "GeoCoordinates")
  /\ IsNum(Get(node, "latitude")) /\ Get(node, "latitude").v \in -900..900
  /\ IsNum(Get(node, "longitude")) /\ Get(node, "longitude").v \in -1800..1800

\* C30: cleanObject keeps every GeoCoordinates node whose latitude and longitude
\* are both given and in range, the boundary values and 0 included.
GeoInRangeKept ==
  (phase = "cleanObject" /\ output # <<>> /\ GeoGivenInRange(input)) => output[1] = input

\* C25: after every successful manual generation the newest history entry
\* stores the document just produced: its schema is the new generatedSchema.
NewestHistoryIsNewDocument ==
  [][(lastRun'.handler = "generateSchema" /\ lastRun'.outcome = "emitted" /\ runs' = runs + 1)
       => (schemaHistory' # <<>> /\ schemaHistory'[1].schema = generatedSchema')]_vars

\* A step of generateSchema, of handleAiSchemaGenerated, of a field handler or reset.
ManualStep == runs' = runs + 1 /\ formData' = formData /\ lastRun'.handler = "generateSchema" /\ generateSchema
UrlGenerationStep == runs' = runs + 1 /\ handleAiSchemaGenerated
FieldOrResetStep == edits' = edits + 1 /\ (handleChange \/ handleSelectChange \/ resetFields)

\* Whether the run just made reported the e-mail address as a strict run does.
EmailRejected(run) ==
  /\ run.outcome = "rejected"
  /\ \E i \in 1..Len(run.description) : run.description[i] = "Invalid email format"

\* C27: isAiGenerated turns true only in a step that completes a URL-based
\* generation; every field change (text or select) and every reset leaves it
\* false; generateSchema validates in the mode isAiGenerated gives: a form with
\* a malformed e-mail address is rejected for it exactly when a field was
\* changed, or the form reset, since the most recent URL-based generation.
ModeFollowsLastChange ==
  [][/\ (isAiGenerated' /\ ~isAiGenerated) => UrlGenerationStep
     /\ UrlGenerationStep => isAiGenerated'
     /\ FieldOrResetStep => ~isAiGenerated'
     /\ (~UrlGenerationStep /\ ~FieldOrResetStep) => isAiGenerated' = isAiGenerated
     /\ (ManualStep /\ Get(formData, "email") = Str(<<"bad">>))
          => (EmailRejected(lastRun') <=> ~isAiGenerated)]_vars

\* A lenient run went through with the malformed e-mail address in the form.
LenientRunAfterUrlGeneration ==
  /\ isAiGenerated
  /\ lastRun.handler = "generateSchema"
  /\ lastRun.outcome = "emitted"
  /\ Get(formData, "email") = Str(<<"bad">>)

\* The sources in the order scrapePageContent asks them.
Sources(revision) == CORS_PROXIES(revision) \o <<"direct">>

IsPrefix(s, t) == Len(s) <= Len(t) /\ s = SubSeq(t, 1, Len(s))

IsValueError(message) ==
  \/ message \in {"Invalid rating value (must be between 1 and 5)",
                  "Invalid review count (must be positive number)",
                  "Invalid latitude (must be between -90 and 90)",
                  "Invalid longitude (must be between -180 and 180)",
                  "Invalid email format"}
  \/ \E index \in 0..9 : message = "Invalid social media URL at index " \o ToString(index)

\* C26: for every business document cleanObject returns, a business node of
\* any content type alone or as the main entity of a page, validateSchema
\* reports no rating-value, review-count, latitude/longitude, e-mail-format
\* or social-link error.
CleanedBusinessPassesValidation ==
  (phase = "cleanObject" /\ output # <<>> /\ IsObj(output[1]) /\ HasBusiness(output[1]))
  => \A i \in 1..Len(validateSchema(output[1]).errors) :
       ~IsValueError(validateSchema(output[1]).errors[i])

NotConfigured(result) ==
  result.k = "thrown"
  /\ \E provider \in AIProviders : result.v = "Provider " \o provider \o " is not configured or enabled"

\* C28: after any sequence of setApiKey and setActiveProvider, a generation
\* without an explicit provider made while getAvailableProviders() is not empty
\* uses a provider of the available set, and fails with 'not configured' only
\* when no provider is available.
GeneratesWithAvailableProvider ==
  [][\A response \in {"ok", "error"} :
       LET result == managerGenerate(input, Undef, response)
       IN (output' = <<[call |-> "manager", result |-> result]>> /\ input' = input)
          => /\ NotConfigured(result) => getAvailableProviders(input) = {}
             /\ (result.k = "generated" /\ getAvailableProviders(input) # {})
                  => result.provider \in getAvailableProviders(input)
             /\ (response = "ok" /\ getAvailableProviders(input) # {}) => result.k = "generated"]_vars

Extracted == phase = "parseHtmlContent" /\ output # <<>>

\* The value an explicit marker carries: the href behind its scheme.
MarkerValue(link, scheme) ==
  IF link # Undef /\ link.href # Undef /\ StartsWith(link.href.v, <<scheme>>)
  THEN ReplaceFirst(link.href.v, scheme)
  ELSE <<>>

\* C22: the contact cascade tries the explicit markers first: on a page with a
\* tel: or mailto: link the extracted phone or e-mail address is the one of the
\* link, whatever the text holds; the text pattern supplies the value only when
\* no marker yields one.
ExplicitMarkerFirst ==
  Extracted =>
    LET contact == Get(output[1], "contactInfo")
        tel == MarkerValue(input.page.phoneLink, "tel:")
        mailto == MarkerValue(input.page.emailLink, "mailto:")
    IN /\ tel # <<>> => OnlyDigits(ToStringPrim(Get(contact, "phone"))) = <<"1">> \o OnlyDigits(tel)
                        \/ OnlyDigits(ToStringPrim(Get(contact, "phone"))) = OnlyDigits(tel)
       /\ mailto # <<>> => Get(contact, "email") \in {Str(mailto), Undef}

\* C23: the extracted e-mail address never contains 'example.com', 'test.com'
\* or 'placeholder', whichever source supplied it.
NoFakeEmail ==
  Extracted =>
    LET email == Get(Get(output[1], "contactInfo"), "email")
    IN IsStr(email) => /\ ~Includes(email.v, <<"example", ".", "com">>)
                       /\ ~Includes(email.v, <<"test", ".", "com">>)
                       /\ ~Includes(email.v, <<"placeholder">>)

ListLen(x) == IF IsArr(x) THEN Len(x.v) ELSE 0

\* C24: the extractor returns at most 10 images, 10 individual reviews and 20
\* services (servicesOffered of the scraper, services of the flow).
ListsAreCapped ==
  Extracted =>
    /\ ListLen(Get(output[1], "images")) <= ImageCap
    /\ ListLen(Get(output[1], "individualReviews")) <= ReviewCap
    /\ ListLen(Get(output[1], "servicesOffered")) <= ServiceCap
    /\ ListLen(Get(output[1], "services")) <= ServiceCap

\* The digits of the extracted phone are those of the value, a country code 1
\* put in front or not.
SamePhone(phone, value) ==
  OnlyDigits(ToStringPrim(phone)) \in {OnlyDigits(value), <<"1">> \o OnlyDigits(value)}

\* The e-mail addresses of the text that are not fake ones.
GenuineEmails(text) ==
  SelectSeq(text, LAMBDA word : /\ MatchesEmail(word)
                                /\ ~Includes(word, <<"example", ".", "com">>)
                                /\ ~Includes(word, <<"test", ".", "com">>)
                                /\ ~Includes(word, <<"placeholder">>))

\* C22, amended: the contact cascade tries the pattern over the text first: a
\* phone number or a genuine e-mail address of the text is the extracted value
\* even when a tel: or mailto: link carries another one; the link supplies the
\* value only when the pattern yields none.
TextPatternFirst ==
  Extracted =>
    LET contact == Get(output[1], "contactInfo")
        tel == MarkerValue(input.page.phoneLink, "tel:")
        mailto == MarkerValue(input.page.emailLink, "mailto:")
        phones == SelectSeq(input.page.text, MatchesPhone)
        emails == GenuineEmails(input.page.text)
    IN /\ phones # <<>> => SamePhone(Get(contact, "phone"), phones[1])
       /\ (phones = <<>> /\ tel # <<>>) => SamePhone(Get(contact, "phone"), tel)
       /\ emails # <<>> => Get(contact, "email") = Str(emails[1])
       /\ (emails = <<>> /\ mailto # <<>>) => Get(contact, "email") = Str(mailto)

\* A page whose text and whose links carry different phone numbers and e-mail
\* addresses, extracted with the values of the text.
TextValueBeatsLink ==
  /\ Extracted
  /\ MarkerValue(input.page.phoneLink, "tel:") = PagePhone("0")
  /\ MarkerValue(input.page.emailLink, "mailto:") = PageEmail("sales")
  /\ SamePhone(Get(Get(output[1], "contactInfo"), "phone"), PagePhone("9"))
  /\ Get(Get(output[1], "contactInfo"), "email") = Str(PageEmail("acme"))

=============================================================================
